---- MODULE Spec2Model ----
(***************************************************************************)
(* Capability links of newsletter_ai: the token codec of src/lib/tokens.ts *)
(* (signPayload, verifyTokenWithSecrets, consumeNonce) and the handlers    *)
(* that accept a token: the unsubscribe page, the survey route and the     *)
(* manage page with its two server actions.                                *)
(*                                                                         *)
(* Strings that the code inspects character by character (tokens, base64   *)
(* text) are sequences of ASCII codes; buffers are sequences of bytes.     *)
(***************************************************************************)
EXTENDS Integers, Sequences, FiniteSets, TLC

VARIABLES
    envSecret,      \* process.env.UNSUBSCRIBE_SECRET ("" when unset)
    envSecretAlt,   \* process.env.UNSUBSCRIBE_SECRET_ALT ("" when unset)
    envDb,          \* NEXT_PUBLIC_SUPABASE_URL and SUPABASE_SERVICE_ROLE_KEY are set
    nowMs,          \* Date.now(), milliseconds
    used_nonces,    \* table public.used_nonces: the set of its primary keys
    user_prefs,     \* table public.user_prefs: user_id -> row, or NoRow
    surveys,        \* table public.surveys: the number of its rows
    reqs,           \* the requests being served, one record per slot
    nOk,            \* history: per nonce, how many consumeNonce calls returned "ok"
    vPayload,       \* codec run: the payload handed to signPayload
    vSigner,        \* codec run: the secret handed to signPayload
    vTok,           \* codec run: the token handed to verifyTokenWithSecrets
    vRes,           \* codec run: what verifyTokenWithSecrets returned
    run,            \* the digest scheduler: its environment and the run being served
    cad             \* the digest scheduler invoked at a fixed cadence

vars == <<envSecret, envSecretAlt, envDb, nowMs, used_nonces, user_prefs, surveys,
          reqs, nOk, vPayload, vSigner, vTok, vRes, run, cad>>

dbVars == <<used_nonces, user_prefs, surveys>>
envVars == <<envSecret, envSecretAlt, envDb>>
codecVars == <<vPayload, vSigner, vTok, vRes>>
digestVars == <<run, cad>>

(***************************************************************************)
(* Bounds of the model and constants of the program.                       *)
(***************************************************************************)
\* Length of the modelled digest in bytes (SHA-256 has 32; both are 2 mod 3, so the
\* last base64 character of a signature carries 4 digest bits and 2 unused bits).
DigestLen == 14

\* Date.now() / 1000: milliseconds per second.
MsPerSec == 1000

\* Rows the surveys table may hold before survey requests stop arriving.
MaxSurveys == 1

\* Milliseconds the clock advances while requests are served.
MaxTicks == 1

Absent == "<absent>"       \* a payload field that is not there (undefined)
NoExp == -1                \* payload.exp is not there

UserIds == <<"u1">>
NonceVals == <<"n1", "n2", "n3">>

SeqToSet(s) == {s[i] : i \in 1..Len(s)}
IndexIn(s, x) == CHOOSE i \in 1..Len(s) : s[i] = x

(***************************************************************************)
(* Character helpers: String.prototype.replace with a global pattern.      *)
(***************************************************************************)
ReplaceAll(s, from, to) == [i \in 1..Len(s) |-> IF s[i] = from THEN to ELSE s[i]]

RemoveAll(s, c) == SelectSeq(s, LAMBDA x : x # c)

Repeat(c, k) == [i \in 1..k |-> c]

(***************************************************************************)
(* Base64.  Buffer.toString("base64") and Buffer.from(s, "base64").        *)
(***************************************************************************)
\* The standard alphabet: A-Z a-z 0-9 + /
B64Char(v) ==
    IF v < 26 THEN 65 + v
    ELSE IF v < 52 THEN 97 + (v - 26)
    ELSE IF v < 62 THEN 48 + (v - 52)
    ELSE IF v = 62 THEN 43 ELSE 47

\* Node's decoder reads both the standard and the URL-safe alphabet; -1: not a digit.
unbase64(c) ==
    IF c >= 65 /\ c <= 90 THEN c - 65
    ELSE IF c >= 97 /\ c <= 122 THEN c - 97 + 26
    ELSE IF c >= 48 /\ c <= 57 THEN c - 48 + 52
    ELSE IF c = 43 \/ c = 45 THEN 62
    ELSE IF c = 47 \/ c = 95 THEN 63
    ELSE -1

RECURSIVE BufferToBase64(_)
BufferToBase64(b) ==
    IF Len(b) = 0 THEN <<>>
    ELSE IF Len(b) = 1 THEN
        <<B64Char(b[1] \div 4), B64Char((b[1] % 4) * 16), 61, 61>>
    ELSE IF Len(b) = 2 THEN
        <<B64Char(b[1] \div 4), B64Char((b[1] % 4) * 16 + b[2] \div 16),
          B64Char((b[2] % 16) * 4), 61>>
    ELSE
        <<B64Char(b[1] \div 4), B64Char((b[1] % 4) * 16 + b[2] \div 16),
          B64Char((b[2] % 16) * 4 + b[3] \div 64), B64Char(b[3] % 64)>>
        \o BufferToBase64(SubSeq(b, 4, Len(b)))

\* Groups of four digits give three bytes; a trailing group of two or three digits
\* gives one or two bytes and its unused low bits are dropped; one digit gives none.
RECURSIVE SextetsToBytes(_)
SextetsToBytes(d) ==
    IF Len(d) < 2 THEN <<>>
    ELSE IF Len(d) = 2 THEN <<d[1] * 4 + d[2] \div 16>>
    ELSE IF Len(d) = 3 THEN <<d[1] * 4 + d[2] \div 16, (d[2] % 16) * 16 + d[3] \div 4>>
    ELSE <<d[1] * 4 + d[2] \div 16, (d[2] % 16) * 16 + d[3] \div 4, (d[3] % 4) * 64 + d[4]>>
         \o SextetsToBytes(SubSeq(d, 5, Len(d)))

\* Characters outside the alphabet (padding included) are skipped by the decoder.
BufferFromBase64(s) ==
    LET digits == SelectSeq(s, LAMBDA c : unbase64(c) >= 0)
    IN  SextetsToBytes([i \in 1..Len(digits) |-> unbase64(digits[i])])

b64urlEncode(buf) ==
    ReplaceAll(ReplaceAll(RemoveAll(BufferToBase64(buf), 61), 43, 45), 47, 95)

b64urlDecode(input) ==
    LET norm == ReplaceAll(ReplaceAll(input, 45, 43), 95, 47)
        pad == 4 - (Len(norm) % 4)
        padded == IF pad < 4 THEN norm \o Repeat(61, pad) ELSE norm
    IN  BufferFromBase64(padded)

(***************************************************************************)
(* HMAC-SHA-256 as an ideal keyed function: a digest of DigestLen bytes    *)
(* that is different for different (secret, message) pairs.  It holds the  *)
(* secret's number, the message length and the message itself.             *)
(***************************************************************************)
SecretCode(secret) ==
    CASE secret = "A" -> 1
      [] secret = "B" -> 2
      [] secret = "X" -> 3
      [] secret = "R" -> 4
      [] secret = "V" -> 5
      [] secret = "W" -> 6
      [] OTHER -> 0

createHmacDigest(secret, msg) ==
    [i \in 1..DigestLen |->
        IF i = 1 THEN SecretCode(secret)
        ELSE IF i = 2 THEN Len(msg)
        ELSE IF i - 2 <= Len(msg) THEN msg[i - 2] ELSE 0]

\* Guarded by the length test in the caller, as crypto.timingSafeEqual requires.
timingSafeEqual(a, b) == a = b

(***************************************************************************)
(* JSON text of a payload.  A text is "{" , one (tag, value) pair of       *)
(* characters per field that is present, "}" : u user_id, e exp, n n.      *)
(* JSON.parse throws on any other text.                                    *)
(***************************************************************************)
NoPayload == [user_id |-> Absent, exp |-> NoExp, n |-> Absent]

JSONstringify(p) ==
    <<123>>
    \o (IF p.user_id = Absent THEN <<>> ELSE <<117, 48 + IndexIn(UserIds, p.user_id)>>)
    \o (IF p.exp = NoExp THEN <<>> ELSE <<101, 48 + p.exp>>)
    \o (IF p.n = Absent THEN <<>> ELSE <<110, 48 + IndexIn(NonceVals, p.n)>>)
    \o <<125>>

JSONPairOk(tag, v) ==
    \/ tag = 117 /\ v - 48 \in 1..Len(UserIds)
    \/ tag = 101 /\ v - 48 \in 0..9
    \/ tag = 110 /\ v - 48 \in 1..Len(NonceVals)

JSONwellFormed(text) ==
    /\ Len(text) >= 2
    /\ Len(text) % 2 = 0
    /\ text[1] = 123
    /\ text[Len(text)] = 125
    /\ \A k \in 1..((Len(text) - 2) \div 2) : JSONPairOk(text[2 * k], text[2 * k + 1])

\* The value of the last pair with the tag, or 0 when there is none.
RECURSIVE JSONfield(_, _, _)
JSONfield(text, tag, k) ==
    IF k = 0 THEN 0
    ELSE IF text[2 * k] = tag THEN text[2 * k + 1] - 48 + 1
    ELSE JSONfield(text, tag, k - 1)

\* A variant that reads every field but n.
JSONparseNoNonce(text) ==
    LET pairs == (Len(text) - 2) \div 2
        u == JSONfield(text, 117, pairs)
        e == JSONfield(text, 101, pairs)
    IN  [user_id |-> IF u = 0 THEN Absent ELSE UserIds[u - 1],
         exp |-> IF e = 0 THEN NoExp ELSE e - 1,
         n |-> Absent]

JSONparse(text) ==
    LET pairs == (Len(text) - 2) \div 2
        u == JSONfield(text, 117, pairs)
        e == JSONfield(text, 101, pairs)
        n == JSONfield(text, 110, pairs)
    IN  [user_id |-> IF u = 0 THEN Absent ELSE UserIds[u - 1],
         exp |-> IF e = 0 THEN NoExp ELSE e - 1,
         n |-> IF n = 0 THEN Absent ELSE NonceVals[n - 1]]

(***************************************************************************)
(* src/lib/tokens.ts                                                       *)
(***************************************************************************)
signPayload(payload, secret) ==
    LET payloadB64 == b64urlEncode(JSONstringify(payload))
        sig == createHmacDigest(secret, payloadB64)
    IN  payloadB64 \o <<46>> \o b64urlEncode(sig)

\* token.split("."): the pieces between the dots, empty pieces included.
RECURSIVE SplitDot(_)
SplitDot(s) ==
    IF \A i \in 1..Len(s) : s[i] # 46 THEN <<s>>
    ELSE LET d == CHOOSE i \in 1..Len(s) : s[i] = 46 /\ \A j \in 1..(i - 1) : s[j] # 46
         IN  <<SubSeq(s, 1, d - 1)>> \o SplitDot(SubSeq(s, d + 1, Len(s)))

\* A variant that compares the lengths of the two digests only.
SignatureMatchesLengthOnly(payloadB64, sigB64, secret) ==
    Len(createHmacDigest(secret, payloadB64)) = Len(b64urlDecode(sigB64))

SignatureMatches(payloadB64, sigB64, secret) ==
    LET expected == createHmacDigest(secret, payloadB64)
        got == b64urlDecode(sigB64)
    IN  Len(expected) = Len(got) /\ timingSafeEqual(expected, got)

\* A variant that already counts the very second of exp as expired.
IsExpiredInclusive(exp, now) == exp # NoExp /\ now >= exp * MsPerSec

\* typeof rawPayload.exp === "number" && Date.now() / 1000 > rawPayload.exp
IsExpired(exp, now) == exp # NoExp /\ now > exp * MsPerSec

VerifyFailure(error) == [ok |-> FALSE, error |-> error, payload |-> NoPayload]
VerifySuccess(payload) == [ok |-> TRUE, error |-> "", payload |-> payload]

RECURSIVE VerifyLoop(_, _, _, _)
VerifyLoop(payloadB64, sigB64, secrets, now) ==
    IF secrets = <<>> THEN VerifyFailure("Invalid token or signature")
    ELSE
        LET secret == Head(secrets)
            rest == VerifyLoop(payloadB64, sigB64, Tail(secrets), now)
            text == b64urlDecode(payloadB64)
        IN  IF secret = "" THEN rest
            ELSE IF ~SignatureMatches(payloadB64, sigB64, secret) THEN rest
            ELSE IF ~JSONwellFormed(text) THEN rest
            ELSE IF IsExpired(JSONparse(text).exp, now) THEN VerifyFailure("Token expired")
            ELSE VerifySuccess(JSONparse(text))

\* A variant without rotation: only the first configured secret is tried.
verifyFirstSecretOnly(token, secrets, now) ==
    LET parts == SplitDot(token)
    IN  IF Len(parts) # 2 THEN VerifyFailure("Bad token format")
        ELSE VerifyLoop(parts[1], parts[2],
                        SubSeq(secrets, 1, IF Len(secrets) > 0 THEN 1 ELSE 0), now)

\* A variant that reads exp before it has checked the signature.
verifyExpiryFirst(token, secrets, now) ==
    LET parts == SplitDot(token)
        text == b64urlDecode(parts[1])
    IN  IF Len(parts) # 2 THEN VerifyFailure("Bad token format")
        ELSE IF JSONwellFormed(text) /\ IsExpired(JSONparse(text).exp, now)
            THEN VerifyFailure("Token expired")
        ELSE VerifyLoop(parts[1], parts[2], secrets, now)

verifyTokenWithSecrets(token, secrets, now) ==
    LET parts == SplitDot(token)
    IN  IF Len(parts) # 2 THEN VerifyFailure("Bad token format")
        ELSE VerifyLoop(parts[1], parts[2], secrets, now)

\* [a, b].filter(Boolean)
getSecrets(secret, secretAlt) == SelectSeq(<<secret, secretAlt>>, LAMBDA s : s # "")

getPayloadNonce(payload) == IF payload.n = Absent THEN Absent ELSE payload.n


(***************************************************************************)
(* The inputs: the tokens requests bear, the handlers and their parameters.*)
(***************************************************************************)
Payload(user_id, exp, n) == [user_id |-> user_id, exp |-> exp, n |-> n]

TokGood == signPayload(Payload("u1", 2, "n1"), "A")        \* signed with the primary
TokAlt == signPayload(Payload("u1", 1, "n2"), "B")         \* the alternate; expires first
TokNoUser == signPayload(Payload(Absent, 2, "n3"), "A")    \* no user_id
TokNoNonce == signPayload(Payload("u1", 2, Absent), "A")   \* no n: not single-use
TokForged == signPayload(Payload("u1", 2, "n1"), "X")      \* signed with a foreign secret
TokNoDot == <<101, 51, 48>>                                \* one part only
TokEmpty == <<>>                                           \* no token parameter

ReqTokens == {TokGood, TokAlt, TokNoUser, TokNoNonce, TokForged, TokNoDot, TokEmpty}

\* The environment of a deployment: both secrets and the database; no secret; no database.
Envs == {<<"A", "B", TRUE>>, <<"", "", TRUE>>, <<"A", "B", FALSE>>}

\* verifyTokenWithSecrets on every input a request can bring, computed once.
RequestTimes == MsPerSec..(MsPerSec + MaxTicks)
RequestSecrets == {getSecrets(e[1], e[2]) : e \in Envs}
VerifyTable ==
    [token \in ReqTokens, secrets \in RequestSecrets, now \in RequestTimes |->
        verifyTokenWithSecrets(token, secrets, now)]
VerifyRequest(token, secrets, now) == VerifyTable[token, secrets, now]

\* A variant of the ledger without the primary key: every insert succeeds.
consumeNonceNoUnique(nonce, ledger, storageFails) ==
    IF nonce = Absent THEN "skip"
    ELSE IF storageFails THEN "error"
    ELSE "ok"

\* consumeNonce: the insert into used_nonces, whose primary key is the nonce.  The
\* store answers with no error, with the unique violation 23505, or with another error.
consumeNonce(nonce, ledger, storageFails) ==
    IF nonce = Absent THEN "skip"
    ELSE IF storageFails THEN "error"
    ELSE IF nonce \in ledger THEN "used"
    ELSE "ok"

\* used_nonces after the call: a row is added only by an insert that succeeded.
LedgerAfter(nonce, ledger, status) == IF status = "ok" THEN ledger \cup {nonce} ELSE ledger

(***************************************************************************)
(* Requests.  A request runs as the code between two awaited database      *)
(* calls: Begin is the synchronous prefix of the handler, ConsumeStep the  *)
(* insert into used_nonces, SelectStep the manage page's read, WriteStep   *)
(* the write to user_prefs or surveys; each goes on to the next await or   *)
(* to the response.                                                        *)
(***************************************************************************)
\* Two requests are served at a time, and any number one after the other.
Slots == {1, 2}

Response(status, body) == [status |-> status, body |-> body]
NoResponse == Response(0, "")

IdleReq ==
    [pc |-> "idle", h |-> "", param |-> "", token |-> <<>>, at |-> 0, payload |-> NoPayload,
     nres |-> "none", wrote |-> FALSE, out |-> NoResponse, formToken |-> <<>>,
     formUnsub |-> FALSE]

\* at: the value of Date.now() the request's verification reads.
Started(h, param, token, now) ==
    [IdleReq EXCEPT !.h = h, !.param = param, !.token = token, !.at = now]

Done(req, status, body) == [req EXCEPT !.pc = "done", !.out = Response(status, body)]

\* (!secret && !secretAlt) || !supabaseUrl || !serviceRoleKey
validateEnvFails(secret, secretAlt, db) == (secret = "" /\ secretAlt = "") \/ ~db

\* src/app/unsubscribe/page.tsx, lines 27-64: up to the call of consumeNonce.
UnsubscribePageBegin(token, action, secret, secretAlt, db, now) ==
    LET req == Started("unsubscribe", action, token, now)
        verification == VerifyRequest(token, getSecrets(secret, secretAlt), now)
        nonce == getPayloadNonce(verification.payload)
    IN  IF validateEnvFails(secret, secretAlt, db)
            THEN Done(req, 200, "Server misconfigured. Missing env vars.")
        ELSE IF token = <<>> THEN Done(req, 200, "Missing token.")
        ELSE IF ~verification.ok THEN Done(req, 200, verification.error)
        ELSE IF verification.payload.user_id = Absent
            THEN Done(req, 200, "Invalid token payload.")
        ELSE IF nonce = Absent
            THEN [req EXCEPT !.pc = "write", !.payload = verification.payload,
                             !.nres = "skip"]
        ELSE [req EXCEPT !.pc = "consume", !.payload = verification.payload]

\* A variant that does not read the status of consumeNonce.
UnsubscribePageAfterNonceUnread(req, status) == [req EXCEPT !.pc = "write", !.nres = status]

\* A variant that answers a used link like a bad token.
UnsubscribePageAfterNonceUsedAsInvalid(req, status) ==
    IF status = "used"
        THEN Done([req EXCEPT !.nres = status], 200, "Invalid token or signature")
    ELSE IF status = "error"
        THEN Done([req EXCEPT !.nres = status], 200, "Failed to validate link.")
    ELSE [req EXCEPT !.pc = "write", !.nres = status]

\* src/app/unsubscribe/page.tsx, lines 65-73: after consumeNonce.
UnsubscribePageAfterNonce(req, status) ==
    IF status = "used" THEN Done([req EXCEPT !.nres = status], 307, "/link/used")
    ELSE IF status = "error"
        THEN Done([req EXCEPT !.nres = status], 200, "Failed to validate link.")
    ELSE [req EXCEPT !.pc = "write", !.nres = status]

\* src/app/unsubscribe/page.tsx, lines 74-96: the upsert and the response.
UnsubscribePageAfterWrite(req, failed) ==
    IF failed THEN Done(req, 200, "upsert error")
    ELSE IF req.param # "subscribe"
        THEN Done([req EXCEPT !.wrote = TRUE], 307, "/unsubscribe/thanks")
    ELSE Done([req EXCEPT !.wrote = TRUE], 200, "You have been resubscribed.")

\* src/app/api/survey/route.ts, GET lines 61-85 and POST lines 117-142.
SurveyBegin(h, redirectTo, token, secret, secretAlt, db, now) ==
    LET req == Started(h, redirectTo, token, now)
        verification == VerifyRequest(token, getSecrets(secret, secretAlt), now)
        nonce == getPayloadNonce(verification.payload)
    IN  IF ~verification.ok THEN Done(req, 400, verification.error)
        ELSE IF nonce # Absent /\ ~db THEN Done(req, 500, "Server not configured")
        ELSE IF nonce # Absent
            THEN [req EXCEPT !.pc = "consume", !.payload = verification.payload]
        ELSE IF ~db
            THEN Done([req EXCEPT !.payload = verification.payload], 500,
                      "Server not configured")
        ELSE [req EXCEPT !.pc = "write", !.payload = verification.payload]

\* A variant that takes every failed insert for the unique violation.
SurveyAfterNonceErrorAsUsed(req, status) ==
    IF status = "used" \/ status = "error" THEN
        IF req.h = "surveyGET" /\ req.param # ""
            THEN Done([req EXCEPT !.nres = status], 307, "/link/used")
            ELSE Done([req EXCEPT !.nres = status], 410, "Link already used")
    ELSE [req EXCEPT !.pc = "write", !.nres = status]

\* src/app/api/survey/route.ts, GET lines 86-99 and POST lines 143-153.
SurveyAfterNonce(req, status) ==
    IF status = "used" THEN
        IF req.h = "surveyGET" /\ req.param # ""
            THEN Done([req EXCEPT !.nres = status], 307, "/link/used")
            ELSE Done([req EXCEPT !.nres = status], 410, "Link already used")
    ELSE IF status = "error"
        THEN Done([req EXCEPT !.nres = status], 500, "Failed to validate link")
    ELSE [req EXCEPT !.pc = "write", !.nres = status]

\* src/app/api/survey/route.ts, insertSurvey and GET lines 101-114, POST 155-165.
SurveyAfterWrite(req, failed) ==
    IF failed THEN Done(req, 500, "insert error")
    ELSE IF req.h = "surveyGET" /\ req.param # ""
        THEN Done([req EXCEPT !.wrote = TRUE], 307, req.param)
    ELSE Done([req EXCEPT !.wrote = TRUE], 200, "ok")

\* A variant of the page that consumes the nonce of its token.
ManagePageBeginConsuming(token, secret, secretAlt, db, now) ==
    LET req == Started("managePage", "", token, now)
        verification == VerifyRequest(token, getSecrets(secret, secretAlt), now)
    IN  IF validateEnvFails(secret, secretAlt, db)
            THEN Done(req, 200, "Server misconfigured. Missing env vars.")
        ELSE IF token = <<>> THEN Done(req, 200, "Missing token.")
        ELSE IF ~verification.ok THEN Done(req, 200, verification.error)
        ELSE IF verification.payload.user_id = Absent
            THEN Done(req, 200, "Invalid token payload.")
        ELSE IF getPayloadNonce(verification.payload) = Absent
            THEN [req EXCEPT !.pc = "select", !.payload = verification.payload]
        ELSE [req EXCEPT !.pc = "consume", !.payload = verification.payload]

\* src/app/manage/page.tsx, ManagePage lines 56-104: up to the select on user_prefs.
ManagePageBegin(token, secret, secretAlt, db, now) ==
    LET req == Started("managePage", "", token, now)
        verification == VerifyRequest(token, getSecrets(secret, secretAlt), now)
    IN  IF validateEnvFails(secret, secretAlt, db)
            THEN Done(req, 200, "Server misconfigured. Missing env vars.")
        ELSE IF token = <<>> THEN Done(req, 200, "Missing token.")
        ELSE IF ~verification.ok THEN Done(req, 200, verification.error)
        ELSE IF verification.payload.user_id = Absent
            THEN Done(req, 200, "Invalid token payload.")
        ELSE [req EXCEPT !.pc = "select", !.payload = verification.payload]

\* src/app/manage/page.tsx, lines 105-116 and 181-195: the form, with the request's
\* token in its hidden field; a failed select leaves the defaults.
ManagePageAfterSelect(req, row, failed) ==
    Done([req EXCEPT !.formToken = req.token,
                     !.formUnsub = IF failed \/ row = "NoRow" THEN FALSE ELSE row = "unsubscribed"],
         200, "form")

\* src/app/manage/page.tsx, updatePrefs lines 118-151 and the unsubscribe formAction
\* lines 266-295: up to the call of consumeNonce.
ManageActionBegin(h, param, token, secret, secretAlt, db, now) ==
    LET req == Started(h, param, token, now)
        verification == VerifyRequest(token, getSecrets(secret, secretAlt), now)
        nonce == getPayloadNonce(verification.payload)
    IN  IF validateEnvFails(secret, secretAlt, db) THEN Done(req, 307, "/manage?ok=0")
        ELSE IF ~verification.ok THEN Done(req, 307, "/manage?ok=0")
        ELSE IF verification.payload.user_id = Absent THEN Done(req, 307, "/manage?ok=0")
        ELSE IF nonce = Absent
            THEN [req EXCEPT !.pc = "write", !.payload = verification.payload,
                             !.nres = "skip"]
        ELSE [req EXCEPT !.pc = "consume", !.payload = verification.payload]

\* src/app/manage/page.tsx, lines 151-160 and 295-304.
ManageActionAfterNonce(req, status) ==
    IF status = "used" \/ status = "error"
        THEN Done([req EXCEPT !.nres = status], 307, "/manage?ok=0")
    ELSE [req EXCEPT !.pc = "write", !.nres = status]

\* A variant that reads the error of the upsert and redirects with ok=0.
ManageActionAfterWriteReadingError(req, failed) ==
    IF failed THEN Done(req, 307, "/manage?ok=0")
    ELSE Done([req EXCEPT !.wrote = TRUE], 307,
              IF req.param = "forceResubscribe" THEN "/manage?ok=1&resub=1" ELSE "/manage?ok=1")

\* src/app/manage/page.tsx, lines 162-178 and 306-320: the upsert's result is not read.
ManageActionAfterWrite(req, failed) ==
    Done([req EXCEPT !.wrote = ~failed], 307,
         IF req.param = "forceResubscribe" THEN "/manage?ok=1&resub=1" ELSE "/manage?ok=1")


\* The scheduler and the cadence while the links are served: nothing of them.
NoRun == [pc |-> "off"]
NoCadence == [pc |-> "off"]

SurveyRequests == Cardinality({r \in Slots : reqs[r].h \in {"surveyGET", "surveyPOST"}})

NoDone == \A r \in Slots : reqs[r].pc # "done"

Init ==
    /\ \E e \in Envs : envSecret = e[1] /\ envSecretAlt = e[2] /\ envDb = e[3]
    /\ nowMs = MsPerSec
    /\ used_nonces = {}
    /\ user_prefs = [u \in SeqToSet(UserIds) |-> "NoRow"]
    /\ surveys = 0
    /\ reqs = [r \in Slots |-> IdleReq]
    /\ nOk = [n \in SeqToSet(NonceVals) |-> 0]
    /\ vPayload = NoPayload
    /\ vSigner = ""
    /\ vTok = <<>>
    /\ vRes = VerifyFailure("<not run>")
    /\ run = NoRun
    /\ cad = NoCadence

(***************************************************************************)
(* The steps of a request.                                                 *)
(***************************************************************************)
\* Slots are interchangeable: a request takes the lowest idle one.
Begin(r) ==
    /\ NoDone
    /\ reqs[r].pc = "idle"
    /\ \A q \in Slots : q < r => reqs[q].pc # "idle"
    /\ \E token \in ReqTokens :
        \/ \E action \in {"unsubscribe", "subscribe"} :
            reqs' = [reqs EXCEPT ![r] =
                UnsubscribePageBegin(token, action, envSecret, envSecretAlt, envDb, nowMs)]
        \/ /\ surveys + SurveyRequests < MaxSurveys
           /\ \E h \in {"surveyGET", "surveyPOST"} :
              \E redirectTo \in (IF h = "surveyGET" THEN {"", "/survey/thanks"} ELSE {""}) :
                reqs' = [reqs EXCEPT ![r] =
                    SurveyBegin(h, redirectTo, token, envSecret, envSecretAlt, envDb, nowMs)]
        \/ reqs' = [reqs EXCEPT ![r] =
                ManagePageBegin(token, envSecret, envSecretAlt, envDb, nowMs)]
        \/ \E param \in {"forceResubscribe", "unsubscribed=false"} :
            reqs' = [reqs EXCEPT ![r] =
                ManageActionBegin("updatePrefs", param, token, envSecret, envSecretAlt,
                                  envDb, nowMs)]
        \/ reqs' = [reqs EXCEPT ![r] =
                ManageActionBegin("manageUnsubscribe", "", token, envSecret, envSecretAlt,
                                  envDb, nowMs)]
    /\ UNCHANGED <<envVars, nowMs, dbVars, nOk, codecVars, digestVars>>

AfterNonce(req, status) ==
    IF req.h = "unsubscribe" THEN UnsubscribePageAfterNonce(req, status)
    ELSE IF req.h \in {"surveyGET", "surveyPOST"} THEN SurveyAfterNonce(req, status)
    ELSE ManageActionAfterNonce(req, status)

ConsumeStep(r) ==
    /\ NoDone
    /\ reqs[r].pc = "consume"
    /\ \E storageFails \in BOOLEAN :
        LET nonce == getPayloadNonce(reqs[r].payload)
            status == consumeNonce(nonce, used_nonces, storageFails)
        IN  /\ used_nonces' = LedgerAfter(nonce, used_nonces, status)
            /\ nOk' = IF status = "ok" /\ nOk[nonce] < 2
                         THEN [nOk EXCEPT ![nonce] = @ + 1] ELSE nOk
            /\ reqs' = [reqs EXCEPT ![r] = AfterNonce(reqs[r], status)]
    /\ UNCHANGED <<envVars, nowMs, user_prefs, surveys, codecVars, digestVars>>

SelectStep(r) ==
    /\ NoDone
    /\ reqs[r].pc = "select"
    /\ \E failed \in BOOLEAN :
        reqs' = [reqs EXCEPT ![r] =
            ManagePageAfterSelect(reqs[r], user_prefs[reqs[r].payload.user_id], failed)]
    /\ UNCHANGED <<envVars, nowMs, dbVars, nOk, codecVars, digestVars>>

\* The row an upsert of the handler leaves in user_prefs.
UpsertRow(req) ==
    IF req.h = "unsubscribe" THEN
        IF req.param # "subscribe" THEN "unsubscribed" ELSE "subscribed"
    ELSE IF req.h = "updatePrefs" THEN
        IF req.param # "forceResubscribe" /\ req.param = "unsubscribed=true"
            THEN "unsubscribed" ELSE "subscribed"
    ELSE "unsubscribed"

\* A variant that takes the nonce out of the ledger again when the write failed.
WriteStepRollingBack(r) ==
    /\ NoDone
    /\ reqs[r].pc = "write"
    /\ \E failed \in BOOLEAN :
        LET req == reqs[r]
        IN  /\ used_nonces' = IF failed THEN used_nonces \ {req.payload.n} ELSE used_nonces
            /\ IF req.h \in {"surveyGET", "surveyPOST"} THEN
                    /\ surveys' = IF failed THEN surveys ELSE surveys + 1
                    /\ reqs' = [reqs EXCEPT ![r] = SurveyAfterWrite(req, failed)]
                    /\ UNCHANGED user_prefs
                ELSE
                    /\ user_prefs' = IF failed THEN user_prefs
                                     ELSE [user_prefs EXCEPT ![req.payload.user_id] =
                                                UpsertRow(req)]
                    /\ reqs' = [reqs EXCEPT ![r] =
                            IF req.h = "unsubscribe" THEN UnsubscribePageAfterWrite(req, failed)
                            ELSE ManageActionAfterWrite(req, failed)]
                    /\ UNCHANGED surveys
    /\ UNCHANGED <<envVars, nowMs, nOk, codecVars, digestVars>>

WriteStep(r) ==
    /\ NoDone
    /\ reqs[r].pc = "write"
    /\ \E failed \in BOOLEAN :
        LET req == reqs[r]
        IN  IF req.h \in {"surveyGET", "surveyPOST"} THEN
                /\ surveys' = IF failed THEN surveys ELSE surveys + 1
                /\ reqs' = [reqs EXCEPT ![r] = SurveyAfterWrite(req, failed)]
                /\ UNCHANGED user_prefs
            ELSE
                /\ user_prefs' = IF failed THEN user_prefs
                                 ELSE [user_prefs EXCEPT ![req.payload.user_id] = UpsertRow(req)]
                /\ reqs' = [reqs EXCEPT ![r] =
                        IF req.h = "unsubscribe" THEN UnsubscribePageAfterWrite(req, failed)
                        ELSE ManageActionAfterWrite(req, failed)]
                /\ UNCHANGED surveys
    /\ UNCHANGED <<envVars, nowMs, used_nonces, nOk, codecVars, digestVars>>

\* The response has been sent; the slot serves the next request.
Retire(r) ==
    /\ reqs[r].pc = "done"
    /\ reqs' = [reqs EXCEPT ![r] = IdleReq]
    /\ UNCHANGED <<envVars, nowMs, dbVars, nOk, codecVars, digestVars>>

Tick ==
    /\ NoDone
    /\ nowMs < MsPerSec + MaxTicks
    /\ nowMs' = nowMs + 1
    /\ UNCHANGED <<envVars, dbVars, reqs, nOk, codecVars, digestVars>>

Next ==
    \/ \E r \in Slots : Begin(r)
    \/ \E r \in Slots : ConsumeStep(r)
    \/ \E r \in Slots : SelectStep(r)
    \/ \E r \in Slots : WriteStep(r)
    \/ \E r \in Slots : Retire(r)
    \/ Tick

Spec == Init /\ [][Next]_vars


(***************************************************************************)
(* The unsubscribe page as it was before consumeNonce: it enforces the     *)
(* nonce itself, with a select on used_nonces and then an insert.  Two     *)
(* requests are served, their database calls interleaved in any order.     *)
(***************************************************************************)
\* Lines 10-47: the environment, the token, the user_id, the nonce.
LegacyUnsubscribeBegin(token, action, secret, secretAlt, db, now) ==
    LET req == Started("unsubscribe", action, token, now)
        res == VerifyRequest(token, getSecrets(secret, secretAlt), now)
        nonce == getPayloadNonce(res.payload)
    IN  IF validateEnvFails(secret, secretAlt, db)
            THEN Done(req, 200, "Server misconfigured. Missing env vars.")
        ELSE IF token = <<>> THEN Done(req, 200, "Missing token.")
        ELSE IF ~res.ok THEN Done(req, 200, res.error)
        ELSE IF res.payload.user_id = Absent THEN Done(req, 200, "Invalid token payload.")
        ELSE IF nonce = Absent
            THEN [req EXCEPT !.pc = "write", !.payload = res.payload, !.nres = "skip"]
        ELSE [req EXCEPT !.pc = "select", !.payload = res.payload]

\* Lines 48-55: the row the select returned, if any; its error is not read.
LegacyAfterSelect(req, seen) ==
    IF seen THEN Done([req EXCEPT !.nres = "used"], 307, "/link/used")
    ELSE [req EXCEPT !.pc = "insert"]

\* Line 56: the insert is awaited and its result dropped; nres keeps it for the record.
LegacyAfterInsert(req, status) == [req EXCEPT !.pc = "write", !.nres = status]

\* Lines 58-77: the upsert and the response.
LegacyAfterWrite(req, failed) ==
    IF failed THEN Done(req, 200, "upsert error")
    ELSE IF req.param # "subscribe"
        THEN Done([req EXCEPT !.wrote = TRUE], 307, "/unsubscribe/thanks")
    ELSE Done([req EXCEPT !.wrote = TRUE], 200, "You have been resubscribed.")

LegacyBegin(r) ==
    /\ reqs[r].pc = "idle"
    /\ \A q \in Slots : q < r => reqs[q].pc # "idle"
    /\ \E token \in ReqTokens, action \in {"unsubscribe", "subscribe"} :
        reqs' = [reqs EXCEPT ![r] =
            LegacyUnsubscribeBegin(token, action, envSecret, envSecretAlt, envDb, nowMs)]
    /\ UNCHANGED <<envVars, nowMs, dbVars, nOk, codecVars, digestVars>>

LegacySelect(r) ==
    /\ reqs[r].pc = "select"
    /\ \E failed \in BOOLEAN :
        reqs' = [reqs EXCEPT ![r] =
            LegacyAfterSelect(reqs[r], ~failed /\ reqs[r].payload.n \in used_nonces)]
    /\ UNCHANGED <<envVars, nowMs, dbVars, nOk, codecVars, digestVars>>

\* The insert into used_nonces: the same statement consumeNonce issues.
LegacyInsert(r) ==
    /\ reqs[r].pc = "insert"
    /\ \E storageFails \in BOOLEAN :
        LET nonce == reqs[r].payload.n
            status == consumeNonce(nonce, used_nonces, storageFails)
        IN  /\ used_nonces' = LedgerAfter(nonce, used_nonces, status)
            /\ reqs' = [reqs EXCEPT ![r] = LegacyAfterInsert(reqs[r], status)]
    /\ UNCHANGED <<envVars, nowMs, user_prefs, surveys, nOk, codecVars, digestVars>>

LegacyWrite(r) ==
    /\ reqs[r].pc = "write"
    /\ \E failed \in BOOLEAN :
        /\ user_prefs' = IF failed THEN user_prefs
                         ELSE [user_prefs EXCEPT ![reqs[r].payload.user_id] =
                                    UpsertRow(reqs[r])]
        /\ reqs' = [reqs EXCEPT ![r] = LegacyAfterWrite(reqs[r], failed)]
    /\ UNCHANGED <<envVars, nowMs, used_nonces, surveys, nOk, codecVars, digestVars>>

NextLegacy ==
    \/ \E r \in Slots : LegacyBegin(r)
    \/ \E r \in Slots : LegacySelect(r)
    \/ \E r \in Slots : LegacyInsert(r)
    \/ \E r \in Slots : LegacyWrite(r)

SpecLegacy == Init /\ [][NextLegacy]_vars

(***************************************************************************)
(* The codec on its own: a payload is signed, the token is handed on as it *)
(* is or damaged, and it is verified under some configuration of the two   *)
(* secrets at some time.                                                   *)
(***************************************************************************)
CodecPayloads ==
    {Payload(u, e, n) : u \in {Absent, "u1"}, e \in {NoExp, 1, 2}, n \in {Absent, "n1"}}

\* The secrets a token is signed with; createHmac takes the empty key too.
CodecSigners == {"", "A", "B", "X"}

CodecSecrets == {"", "A", "B"}

\* Around each expiry: the millisecond before, the very millisecond, the one after,
\* and a full second after.
CodecTimes == {e * MsPerSec + d : e \in {1, 2}, d \in {-1, 0, 1, MsPerSec}}

\* The token without its dot, with a third part, with its signature cut off, and
\* with its payload cut off.
Damaged(token) ==
    {RemoveAll(token, 46), token \o <<46, 65>>, SplitDot(token)[1] \o <<46>>,
     <<46>> \o SplitDot(token)[2]}

InitCodec ==
    /\ Init
    /\ envSecret = "A"
    /\ envSecretAlt = "B"
    /\ envDb

\* No token is empty: signPayload puts a dot in each.
SignStep ==
    /\ vTok = <<>>
    /\ \E p \in CodecPayloads, s \in CodecSigners :
        /\ vPayload' = p
        /\ vSigner' = s
        /\ vTok' = signPayload(p, s)
    /\ vRes' = VerifyFailure("<not run>")
    /\ UNCHANGED <<envVars, nowMs, dbVars, reqs, nOk, digestVars>>

DamageStep ==
    /\ vTok # <<>>
    /\ vTok = signPayload(vPayload, vSigner)
    /\ \E t \in Damaged(vTok) : vTok' = t
    /\ vRes' = VerifyFailure("<not run>")
    /\ UNCHANGED <<envVars, nowMs, dbVars, reqs, nOk, digestVars, vPayload, vSigner>>

VerifyStep ==
    /\ vTok # <<>>
    /\ vRes.error = "<not run>"
    /\ \E a \in CodecSecrets, b \in CodecSecrets, t \in CodecTimes :
        /\ envSecret' = a
        /\ envSecretAlt' = b
        /\ nowMs' = t
        /\ vRes' = verifyTokenWithSecrets(vTok, getSecrets(a, b), t)
    /\ UNCHANGED <<envDb, dbVars, reqs, nOk, digestVars, vPayload, vSigner, vTok>>

\* The run is over; the next one starts from the initial configuration.
ResetStep ==
    /\ vRes.error # "<not run>"
    /\ envSecret' = "A"
    /\ envSecretAlt' = "B"
    /\ nowMs' = MsPerSec
    /\ vPayload' = NoPayload
    /\ vSigner' = ""
    /\ vTok' = <<>>
    /\ vRes' = VerifyFailure("<not run>")
    /\ UNCHANGED <<envDb, dbVars, reqs, nOk, digestVars>>

NextCodec == SignStep \/ DamageStep \/ VerifyStep \/ ResetStep

SpecCodec == InitCodec /\ [][NextCodec]_vars

(***************************************************************************)
(* The codec with a token altered in one bit of one character on its way   *)
(* to the verifier.                                                        *)
(***************************************************************************)
\* Bits of a character of the token string.
CharBits == 8

Pow2(k) == IF k = 0 THEN 1 ELSE 2 * 2 ^ (k - 1)

FlipBit(c, k) == IF (c \div Pow2(k)) % 2 = 1 THEN c - Pow2(k) ELSE c + Pow2(k)

\* The token is altered on its way to the verifier, before it is verified.
FlipStep ==
    /\ vTok # <<>>
    /\ vRes.error = "<not run>"
    /\ vTok = signPayload(vPayload, vSigner)
    /\ \E i \in 1..Len(vTok), k \in 0..(CharBits - 1) :
        vTok' = [vTok EXCEPT ![i] = FlipBit(@, k)]
    /\ vRes' = VerifyFailure("<not run>")
    /\ UNCHANGED <<envVars, nowMs, dbVars, reqs, nOk, digestVars, vPayload, vSigner>>

NextTamper == SignStep \/ FlipStep \/ VerifyStep \/ ResetStep

SpecTamper == InitCodec /\ [][NextTamper]_vars


(***************************************************************************)
(* The digest scheduler: GET of the digest-run route.                      *)
(***************************************************************************)
MinutesPerDay == 1440      \* Math.min(diff, 1440 - diff)
MinutesPerHour == 60       \* targetHour * 60 + targetMinute
MsPerMinute == 60000       \* a Date, in milliseconds, to its minute
DefaultHour == 9           \* typeof pref.send_hour === "number" ? pref.send_hour : 9
DefaultWindow == 15        \* searchParams.get("window") || "15"
MinWindow == 1             \* Math.max(raw, 1)
MaxWindow == 60            \* Math.min(..., 60)
NoTime == -1               \* send_hour or send_minute is null

Abs(x) == IF x < 0 THEN -x ELSE x
Min(a, b) == IF a <= b THEN a ELSE b
Max(a, b) == IF a >= b THEN a ELSE b

\* Offsets from UTC, in minutes, of the time zones Intl knows; these have no
\* daylight saving time.
KnownZones == {"UTC", "Asia/Kolkata", "America/Phoenix"}

ZoneOffset(timeZone) ==
    CASE timeZone = "Asia/Kolkata" -> 330
      [] timeZone = "America/Phoenix" -> -420
      [] OTHER -> 0

\* Intl.DateTimeFormat throws on a zone it does not know; the catch answers in UTC.
getTimeInTimezone(timeZone, reference) ==
    LET utc == (reference \div MsPerMinute) % MinutesPerDay
        local == IF timeZone \in KnownZones
                    THEN (utc + ZoneOffset(timeZone) + MinutesPerDay) % MinutesPerDay
                    ELSE utc
    IN  [hour |-> local \div MinutesPerHour, minute |-> local % MinutesPerHour]

\* A variant without the wrap at midnight.
minutesBetweenNoWrap(targetHour, targetMinute, currentHour, currentMinute) ==
    Abs((targetHour * MinutesPerHour + targetMinute)
        - (currentHour * MinutesPerHour + currentMinute))

\* A variant that measures only round the other side of the day.
minutesBetweenFarSide(targetHour, targetMinute, currentHour, currentMinute) ==
    MinutesPerDay - Abs((targetHour * MinutesPerHour + targetMinute)
                        - (currentHour * MinutesPerHour + currentMinute))

minutesBetween(targetHour, targetMinute, currentHour, currentMinute) ==
    LET targetTotal == targetHour * MinutesPerHour + targetMinute
        currentTotal == currentHour * MinutesPerHour + currentMinute
        diff == Abs(targetTotal - currentTotal)
    IN  Min(diff, MinutesPerDay - diff)

\* Number.parseInt(text, 10): the leading digits, after an optional sign; NaN if none.
IsDigit(c) == c >= 48 /\ c <= 57

RECURSIVE DigitsValue(_, _)
DigitsValue(text, acc) ==
    IF text = <<>> \/ ~IsDigit(Head(text)) THEN acc
    ELSE DigitsValue(Tail(text), 10 * acc + (Head(text) - 48))

parseInt(text) ==
    LET neg == text # <<>> /\ Head(text) = 45
        body == IF text # <<>> /\ Head(text) \in {43, 45} THEN Tail(text) ELSE text
    IN  IF body = <<>> \/ ~IsDigit(Head(body)) THEN [nan |-> TRUE, value |-> 0]
        ELSE [nan |-> FALSE,
              value |-> IF neg THEN -DigitsValue(body, 0) ELSE DigitsValue(body, 0)]

\* The window parameter of the request; "" stands for a parameter that is not there.
windowMinutes(param) ==
    LET raw == parseInt(IF param = <<>> THEN <<49, 53>> ELSE param)
    IN  IF raw.nan THEN DefaultWindow ELSE Min(Max(raw.value, MinWindow), MaxWindow)

\* Buffer.from(text, "hex"): bytes of the pairs of hex digits, up to the first pair
\* that is not one.
unhex(c) ==
    IF c >= 48 /\ c <= 57 THEN c - 48
    ELSE IF c >= 97 /\ c <= 102 THEN c - 87
    ELSE IF c >= 65 /\ c <= 70 THEN c - 55
    ELSE -1

RECURSIVE BufferFromHex(_)
BufferFromHex(text) ==
    IF Len(text) < 2 \/ unhex(text[1]) < 0 \/ unhex(text[2]) < 0 THEN <<>>
    ELSE <<16 * unhex(text[1]) + unhex(text[2])>> \o BufferFromHex(SubSeq(text, 3, Len(text)))

HexChar(v) == IF v < 10 THEN 48 + v ELSE 87 + v

RECURSIVE BufferToHex(_)
BufferToHex(b) ==
    IF b = <<>> THEN <<>>
    ELSE <<HexChar(Head(b) \div 16), HexChar(Head(b) % 16)>> \o BufferToHex(Tail(b))

startsWith(text, prefix) ==
    Len(text) >= Len(prefix) /\ SubSeq(text, 1, Len(prefix)) = prefix

slice(text, from) == SubSeq(text, from + 1, Len(text))

RECURSIVE trimStart(_)
trimStart(text) == IF text # <<>> /\ Head(text) = 32 THEN trimStart(Tail(text)) ELSE text

RECURSIVE trimEnd(_)
trimEnd(text) ==
    IF text # <<>> /\ text[Len(text)] = 32 THEN trimEnd(SubSeq(text, 1, Len(text) - 1))
    ELSE text

trim(text) == trimEnd(trimStart(text))

PrefixSha256 == <<115, 104, 97, 50, 53, 54, 61>>     \* "sha256="
PrefixSha1 == <<115, 104, 97, 49, 61>>               \* "sha1="

\* One candidate reading of the signature header against the digest of the body.
CandidateMatches(candidate, digest) ==
    \/ LET provided == BufferFromHex(candidate)
       IN  Len(provided) = Len(digest) /\ timingSafeEqual(provided, digest)
    \/ LET provided == BufferFromBase64(candidate)
       IN  Len(provided) = Len(digest) /\ timingSafeEqual(provided, digest)

cronMatch(cronSecret, signature, cronHeader, body) ==
    IF cronSecret = "" \/ signature = <<>> \/ cronHeader = "" THEN FALSE
    ELSE
        LET digest == createHmacDigest(cronSecret, body)
            signatures ==
                <<trim(signature)>>
                \o (IF startsWith(signature, PrefixSha256)
                        THEN <<slice(signature, Len(PrefixSha256))>> ELSE <<>>)
                \o (IF startsWith(signature, PrefixSha1)
                        THEN <<slice(signature, Len(PrefixSha1))>> ELSE <<>>)
        IN  \E k \in 1..Len(signatures) : CandidateMatches(signatures[k], digest)

\* authHeader.startsWith("Bearer ") ? authHeader.slice(7) : ""
bearerToken(authorization) ==
    IF authorization.scheme = "Bearer " THEN authorization.credentials ELSE ""

manualMatch(runSecret, providedSecret, bearer) ==
    runSecret # "" /\ (providedSecret = runSecret \/ bearer = runSecret)

\* A variant that lets the cron header stand for the signature.
hasValidSecretByHeader(env, req) ==
    \/ manualMatch(env.runSecret, req.secret, bearerToken(req.authorization))
    \/ req.cronHeader # ""

hasValidSecret(env, req) ==
    \/ manualMatch(env.runSecret, req.secret, bearerToken(req.authorization))
    \/ cronMatch(IF env.cronSecret # "" THEN env.cronSecret ELSE env.runSecret,
                 req.signature, req.cronHeader, req.body)

\* A row of user_prefs as the scheduler selects it; send_timezone, send_hour and
\* send_minute may be null.
PrefRow(user_id, unsubscribed, send_timezone, send_hour, send_minute) ==
    [user_id |-> user_id, unsubscribed |-> unsubscribed, send_timezone |-> send_timezone,
     send_hour |-> send_hour, send_minute |-> send_minute]

\* The filter of duePrefs.
isDue(pref, now, window) ==
    LET timezone == IF pref.send_timezone \in {Absent, ""} THEN "UTC" ELSE pref.send_timezone
        targetHour == IF pref.send_hour # NoTime THEN pref.send_hour ELSE DefaultHour
        targetMinute == IF pref.send_minute # NoTime THEN pref.send_minute ELSE 0
        current == getTimeInTimezone(timezone, now)
        diff == minutesBetween(targetHour, targetMinute, current.hour, current.minute)
    IN  diff <= window

\* What the route answers: NextResponse.json(body, { status }).
DigestResponse(status, ok, error, message) ==
    [status |-> status, ok |-> ok, error |-> error, message |-> message, sent |-> 0,
     dryRun |-> FALSE, windowMinutes |-> 0, skipped |-> <<>>]

NoDigestResponse == DigestResponse(0, FALSE, "", "")

\* The promise of GET rejected: the framework answers 500, without the route's body.
DigestRejected == DigestResponse(500, FALSE, "<rejected>", "")

NoDigestRequest ==
    [secret |-> "", authorization |-> [scheme |-> "", credentials |-> ""], cronHeader |-> "",
     signature |-> <<>>, body |-> <<>>, window |-> <<>>, dry |-> ""]

\* The scheduler before a request: env are the variables of its environment next
\* to those of the links, users the ids with an email in auth.users.  History:
\* minted, the subscribers tokens were signed for; mailer, those the mailer was called
\* for, and answers, how each call ended; faults, the loads that failed; links, the
\* links of the digests built so far; drawn, the calls of randomBytes so far;
\* clicks, the links recipients followed and what consumeNonce answered.
IdleRun(env, users) ==
    [pc |-> "idle", env |-> env, users |-> users, req |-> NoDigestRequest,
     windowMinutes |-> 0, dryRun |-> FALSE, prefs |-> <<>>, duePrefs |-> <<>>,
     emailLookup |-> {}, i |-> 1, results |-> <<>>, minted |-> <<>>, mailer |-> <<>>,
     loaded |-> FALSE, response |-> NoDigestResponse, faults |-> {}, answers |-> <<>>,
     signer |-> "", articles |-> <<>>, links |-> <<>>, drawn |-> 0, clicks |-> <<>>]

DigestDone(r, response) == [r EXCEPT !.pc = "done", !.response = response]

Result(userId, status, error) == [userId |-> userId, status |-> status, error |-> error]

\* Lines 159-236: authorization, the parameters and the environment.
DigestBegin(r, req, secret, secretAlt, db) ==
    LET started == [r EXCEPT !.req = req]
        window == windowMinutes(req.window)
        dry == req.dry = "1"
        signer == IF secret # "" THEN secret ELSE secretAlt
    IN  IF ~hasValidSecret(r.env, req)
            THEN DigestDone(started, DigestResponse(401, FALSE, "Unauthorized", ""))
        ELSE IF ~db
            THEN DigestDone(started, DigestResponse(500, FALSE, "Missing Supabase env", ""))
        ELSE IF signer = ""
            THEN DigestDone(started, DigestResponse(500, FALSE, "Missing unsubscribe secret", ""))
        ELSE IF ~r.env.resendApiKey /\ ~dry
            THEN DigestDone(started,
                            DigestResponse(500, FALSE, "RESEND_API_KEY not configured", ""))
        ELSE [started EXCEPT !.pc = "prefs", !.windowMinutes = window, !.dryRun = dry,
                             !.signer = signer]

\* A variant that keeps the rows of unsubscribed users.
DigestAfterPrefsAll(r, rows, failed, now) ==
    LET duePrefs == SelectSeq(rows, LAMBDA pref : isDue(pref, now, r.windowMinutes))
    IN  IF failed THEN DigestDone(r, DigestResponse(500, FALSE, "prefsError", ""))
        ELSE IF rows = <<>>
            THEN DigestDone([r EXCEPT !.prefs = rows, !.loaded = TRUE],
                            DigestResponse(200, TRUE, "", "No active users"))
        ELSE IF duePrefs = <<>>
            THEN DigestDone([r EXCEPT !.prefs = rows, !.loaded = TRUE],
                            DigestResponse(200, TRUE, "", "No users within window"))
        ELSE [r EXCEPT !.pc = "articles", !.prefs = rows, !.loaded = TRUE,
                       !.duePrefs = duePrefs]

\* Lines 238-262: the rows of user_prefs, the active ones, the due ones.
DigestAfterPrefs(r, rows, failed, now) ==
    LET activePrefs == SelectSeq(rows, LAMBDA pref : ~pref.unsubscribed)
        duePrefs == SelectSeq(activePrefs, LAMBDA pref : isDue(pref, now, r.windowMinutes))
    IN  IF failed THEN DigestDone(r, DigestResponse(500, FALSE, "prefsError", ""))
        ELSE IF activePrefs = <<>>
            THEN DigestDone([r EXCEPT !.prefs = rows, !.loaded = TRUE],
                            DigestResponse(200, TRUE, "", "No active users"))
        ELSE IF duePrefs = <<>>
            THEN DigestDone([r EXCEPT !.prefs = rows, !.loaded = TRUE],
                            DigestResponse(200, TRUE, "", "No users within window"))
        ELSE [r EXCEPT !.pc = "articles", !.prefs = rows, !.loaded = TRUE,
                       !.duePrefs = duePrefs]

\* A variant that does not read the error of the articles query.
DigestAfterArticlesUnread(r, rows, failed) ==
    [r EXCEPT !.pc = "users", !.articles = IF failed THEN <<>> ELSE rows]

\* Lines 264-272: the articles.
DigestAfterArticles(r, rows, failed) ==
    IF failed THEN DigestDone(r, DigestResponse(500, FALSE, "artErr", ""))
    ELSE [r EXCEPT !.pc = "users", !.articles = rows]

\* 7 * 24 * 3600
TokenLifetime == 604800

\* randomBytes(16).toString("base64url"), the k-th draw of the process: 128 bits of
\* the system's generator, a value no other draw returns.
randomBytes(k) == ToString(k)

\* A link of a digest: the page it leads to, the article and answer of a survey
\* link, and signPayload(payload, signer) as the payload and the secret it was
\* signed with.
Link(path, article, answer, payload, signer) ==
    [path |-> path, article |-> article, answer |-> answer, payload |-> payload,
     signer |-> signer]

\* A variant that draws one nonce for a digest and puts it in each of its tokens.
MintDigestOneNonce(r, pref, now) ==
    LET exp == (now \div MsPerSec) + TokenLifetime
        payload == [user_id |-> pref.user_id, exp |-> exp, n |-> randomBytes(r.drawn + 1)]
        survey(j) ==
            <<Link("/api/survey", r.articles[j], "yes", payload, r.signer),
              Link("/api/survey", r.articles[j], "no", payload, r.signer)>>
        RECURSIVE yesNoLinks(_)
        yesNoLinks(j) == IF j > Len(r.articles) THEN <<>> ELSE survey(j) \o yesNoLinks(j + 1)
    IN  [r EXCEPT !.minted = Append(@, pref.user_id),
                  !.links = @ \o <<Link("/manage", "", "", payload, r.signer),
                                   Link("/unsubscribe", "", "", payload, r.signer),
                                   Link("/unsubscribe?action=subscribe", "", "", payload,
                                        r.signer)>>
                              \o yesNoLinks(1),
                  !.drawn = @ + 1]

\* Lines 291-332: the tokens of one subscriber's digest, each signPayload with its
\* own randomBytes: manage, unsubscribe, resubscribe, then yes and no per article.
MintDigest(r, pref, now) ==
    LET exp == (now \div MsPerSec) + TokenLifetime
        payload(k) == [user_id |-> pref.user_id, exp |-> exp, n |-> randomBytes(r.drawn + k)]
        survey(j) ==
            <<Link("/api/survey", r.articles[j], "yes", payload(3 + 2 * j - 1), r.signer),
              Link("/api/survey", r.articles[j], "no", payload(3 + 2 * j), r.signer)>>
        RECURSIVE yesNoLinks(_)
        yesNoLinks(j) == IF j > Len(r.articles) THEN <<>> ELSE survey(j) \o yesNoLinks(j + 1)
    IN  [r EXCEPT !.minted = Append(@, pref.user_id),
                  !.links = @ \o <<Link("/manage", "", "", payload(1), r.signer),
                                   Link("/unsubscribe", "", "", payload(2), r.signer),
                                   Link("/unsubscribe?action=subscribe", "", "", payload(3),
                                        r.signer)>>
                              \o yesNoLinks(1),
                  !.drawn = @ + 3 + 2 * Len(r.articles)]

\* Lines 365-368: the aggregate.
DigestAggregate(r) ==
    [status |-> 200, ok |-> TRUE, error |-> "", message |-> "",
     sent |-> Len(SelectSeq(r.results, LAMBDA x : x.status = "sent")),
     dryRun |-> r.dryRun, windowMinutes |-> r.windowMinutes,
     skipped |-> SelectSeq(r.results, LAMBDA x : x.status = "skipped")]

\* Lines 284-337: the loop over duePrefs, up to the next call of the mailer or to
\* the end; the tokens of a subscriber are signed before the dry-run test.
RECURSIVE FanOut(_, _)
FanOut(r, now) ==
    IF r.i > Len(r.duePrefs) THEN DigestDone(r, DigestAggregate(r))
    ELSE
        LET pref == r.duePrefs[r.i]
        IN  IF pref.user_id \notin r.emailLookup
                THEN FanOut([r EXCEPT !.results = Append(@, Result(pref.user_id, "skipped",
                                                                     "No email")),
                                      !.i = @ + 1], now)
            ELSE IF r.dryRun
                THEN FanOut([MintDigest(r, pref, now)
                                EXCEPT !.results = Append(@, Result(pref.user_id, "dry", "")),
                                       !.i = @ + 1], now)
            ELSE [MintDigest(r, pref, now) EXCEPT !.pc = "fetch"]

\* Lines 274-284: the emails of auth.users; a failed listing leaves the lookup empty.
DigestAfterUsers(r, failed, now) ==
    FanOut([r EXCEPT !.emailLookup = IF failed THEN {} ELSE r.users, !.i = 1], now)

\* A variant in which a rejected send ends the run.
DigestAfterFetchStops(r, outcome, now) ==
    LET pref == r.duePrefs[r.i]
        called == [r EXCEPT !.mailer = Append(@, pref.user_id)]
    IN  IF outcome = "throws" THEN DigestDone(called, DigestRejected)
        ELSE IF outcome = "hangs" THEN [called EXCEPT !.pc = "hung"]
        ELSE IF outcome = "rejected"
            THEN DigestDone(called, DigestResponse(500, FALSE, "mailer error", ""))
        ELSE FanOut([called EXCEPT !.results = Append(@, Result(pref.user_id, "sent", "")),
                                   !.i = @ + 1], now)

\* Lines 348-363: the answer of the mailer.  A fetch that throws rejects the promise
\* of GET, there being no try around it; one that never settles leaves GET waiting.
DigestAfterFetch(r, outcome, now) ==
    LET pref == r.duePrefs[r.i]
        called == [r EXCEPT !.mailer = Append(@, pref.user_id)]
    IN  IF outcome = "throws" THEN DigestDone(called, DigestRejected)
        ELSE IF outcome = "hangs" THEN [called EXCEPT !.pc = "hung"]
        ELSE IF outcome = "rejected"
            THEN FanOut([called EXCEPT !.results = Append(@, Result(pref.user_id, "skipped",
                                                                     "mailer error")),
                                       !.i = @ + 1], now)
        ELSE FanOut([called EXCEPT !.results = Append(@, Result(pref.user_id, "sent", "")),
                                   !.i = @ + 1], now)

(***************************************************************************)
(* The runs of the scheduler: an environment, the tables and the clock are *)
(* given; a request comes in and is served to its response.                *)
(***************************************************************************)
DigestEnv(secret, secretAlt, db, runSecret, cronSecret, resendApiKey) ==
    [secret |-> secret, secretAlt |-> secretAlt, db |-> db, runSecret |-> runSecret,
     cronSecret |-> cronSecret, resendApiKey |-> resendApiKey]

\* All set; no mailer key; no database; no signing secret; the alternate only; no
\* run secret.
DigestEnvs ==
    {DigestEnv("A", "B", TRUE, "R", "", TRUE),
     DigestEnv("A", "B", TRUE, "R", "", FALSE),
     DigestEnv("A", "B", FALSE, "R", "", TRUE),
     DigestEnv("", "", TRUE, "R", "", TRUE),
     DigestEnv("", "B", TRUE, "R", "", TRUE),
     DigestEnv("A", "B", TRUE, "", "", TRUE)}

\* The tables: the rows of user_prefs and the users that have an email.
Population(prefs, users) == [prefs |-> prefs, users |-> users]

PopScenario ==
    <<PrefRow("s1", FALSE, "UTC", 9, 0), PrefRow("s2", FALSE, "UTC", 9, 20),
      PrefRow("s3", FALSE, "UTC", 14, 0)>>

PopEdges ==
    <<PrefRow("s1", FALSE, "UTC", 0, 5), PrefRow("s2", TRUE, "UTC", 0, 0),
      PrefRow("s3", FALSE, Absent, NoTime, NoTime), PrefRow("s4", FALSE, "UTC", 12, 0)>>

PopZones ==
    <<PrefRow("s1", FALSE, "Asia/Kolkata", 14, 35), PrefRow("s2", FALSE, "Mars/Phobos", 9, 0),
      PrefRow("s3", TRUE, "America/Phoenix", 2, 5), PrefRow("s4", TRUE, "UTC", 9, 5)>>

Populations ==
    {Population(PopScenario, {"s1", "s2", "s3"}),
     Population(PopScenario, {"s2", "s3"}),
     Population(PopEdges, {"s1", "s2", "s4"}),
     Population(PopZones, {"s1", "s2", "s3", "s4"}),
     Population(<<>>, {})}

\* new Date(): half a minute into 09:05, 23:58 and 12:20 UTC.
TimeOfDay(hour, minute) == (hour * MinutesPerHour + minute) * MsPerMinute + 30000

DigestTimes == {TimeOfDay(9, 5), TimeOfDay(23, 58), TimeOfDay(12, 20)}

DigestRequest(secret, scheme, credentials, cronHeader, signature, body, window, dry) ==
    [secret |-> secret, authorization |-> [scheme |-> scheme, credentials |-> credentials],
     cronHeader |-> cronHeader, signature |-> signature, body |-> body, window |-> window,
     dry |-> dry]

\* window: not there, "5", "90", "x".
DigestWindows == {<<>>, <<53>>, <<57, 48>>, <<120>>}

\* The operator's requests: the secret as parameter, as bearer token, wrong, not there.
DigestRequests ==
    {DigestRequest(a[1], a[2], a[3], "", <<>>, <<>>, window, dry) :
        a \in {<<"R", "", "">>, <<"", "Bearer ", "R">>, <<"W", "", "">>, <<"", "", "">>},
        window \in DigestWindows, dry \in {"", "1"}}

InitOthers ==
    /\ used_nonces = {}
    /\ surveys = 0
    /\ reqs = [r \in Slots |-> IdleReq]
    /\ nOk = [n \in SeqToSet(NonceVals) |-> 0]
    /\ vPayload = NoPayload
    /\ vSigner = ""
    /\ vTok = <<>>
    /\ vRes = VerifyFailure("<not run>")

InitRun(envs, populations, times) ==
    /\ \E e \in envs, pop \in populations :
        /\ envSecret = e.secret
        /\ envSecretAlt = e.secretAlt
        /\ envDb = e.db
        /\ user_prefs = pop.prefs
        /\ run = IdleRun([runSecret |-> e.runSecret, cronSecret |-> e.cronSecret,
                          resendApiKey |-> e.resendApiKey], pop.users)
    /\ nowMs \in times
    /\ cad = NoCadence
    /\ InitOthers

InitDigest == InitRun(DigestEnvs, Populations, DigestTimes)

StartWith(requests) ==
    /\ run.pc = "idle"
    /\ \E req \in requests : run' = DigestBegin(run, req, envSecret, envSecretAlt, envDb)
    /\ UNCHANGED <<envVars, nowMs, dbVars, reqs, nOk, codecVars, cad>>

DigestStart == StartWith(DigestRequests)

DigestLoadPrefs ==
    /\ run.pc = "prefs"
    /\ \E failed \in BOOLEAN :
        run' = [DigestAfterPrefs(run, user_prefs, failed, nowMs)
                    EXCEPT !.faults = IF failed THEN @ \cup {"prefs"} ELSE @]
    /\ UNCHANGED <<envVars, nowMs, dbVars, reqs, nOk, codecVars, cad>>

\* The newest rows of articles, at most five of them; here none, one or two.
ArticleRows == {<<>>, <<"a1">>, <<"a1", "a2">>}

DigestLoadArticles ==
    /\ run.pc = "articles"
    /\ \E failed \in BOOLEAN, rows \in ArticleRows :
        run' = [DigestAfterArticles(run, rows, failed)
                    EXCEPT !.faults = IF failed THEN @ \cup {"articles"} ELSE @]
    /\ UNCHANGED <<envVars, nowMs, dbVars, reqs, nOk, codecVars, cad>>

DigestListUsers ==
    /\ run.pc = "users"
    /\ \E failed \in BOOLEAN :
        run' = [DigestAfterUsers(run, failed, nowMs)
                    EXCEPT !.faults = IF failed THEN @ \cup {"users"} ELSE @]
    /\ UNCHANGED <<envVars, nowMs, dbVars, reqs, nOk, codecVars, cad>>

MailerOutcomes == {"accepted", "rejected", "throws", "hangs"}

DigestMailer ==
    /\ run.pc = "fetch"
    /\ \E outcome \in MailerOutcomes :
        run' = [DigestAfterFetch(run, outcome, nowMs) EXCEPT !.answers = Append(@, outcome)]
    /\ UNCHANGED <<envVars, nowMs, dbVars, reqs, nOk, codecVars, cad>>

NextDigest ==
    \/ DigestStart
    \/ DigestLoadPrefs
    \/ DigestLoadArticles
    \/ DigestListUsers
    \/ DigestMailer

SpecDigest == InitDigest /\ [][NextDigest]_vars

(***************************************************************************)
(* The authorization of the scheduler: requests with every combination of  *)
(* secret parameter, authorization header, cron header, signature and body,*)
(* under every configuration of the run secret and the cron secret.        *)
(***************************************************************************)
AuthEnvs ==
    {DigestEnv("A", "B", TRUE, runSecret, cronSecret, TRUE) :
        runSecret \in {"", "R"}, cronSecret \in {"", "V"}}

AuthPopulations == {Population(<<PrefRow("s1", FALSE, "UTC", 9, 0)>>, {"s1"})}

AuthBodies == {<<>>, <<97>>}

\* The texts a sender can put a digest in: hex, base64, hex after "sha256=", and hex
\* followed by a character that is no hex digit.
SignatureTexts(digest) ==
    {BufferToHex(digest), BufferToBase64(digest), PrefixSha256 \o BufferToHex(digest),
     BufferToHex(digest) \o <<122>>}

\* No signature, and the signatures of each body under the run secret, the cron
\* secret and a secret that is not configured.
AuthSignatures ==
    {<<>>} \cup UNION {SignatureTexts(createHmacDigest(key, body)) :
                        key \in {"R", "V", "W"}, body \in AuthBodies}

AuthRequests ==
    {DigestRequest(secret, a[1], a[2], cronHeader, signature, body, <<>>, "") :
        secret \in {"", "R", "W"},
        a \in {<<"", "">>, <<"Bearer ", "R">>, <<"Bearer ", "W">>, <<"Basic ", "R">>},
        cronHeader \in {"", "1"}, signature \in AuthSignatures, body \in AuthBodies}

InitAuth == InitRun(AuthEnvs, AuthPopulations, {TimeOfDay(9, 5)})

AuthStart == StartWith(AuthRequests)

NextAuth ==
    \/ AuthStart
    \/ DigestLoadPrefs
    \/ DigestLoadArticles
    \/ DigestListUsers
    \/ DigestMailer

SpecAuth == InitAuth /\ [][NextAuth]_vars

(***************************************************************************)
(* The links of a digest: a run mails its digests, and the recipients      *)
(* follow links of them, each handler verifying the token and consuming    *)
(* its nonce.                                                              *)
(***************************************************************************)
\* Links followed after a run.
MaxClicks == 2

LinkEnvs == {DigestEnv("A", "B", TRUE, "R", "", TRUE), DigestEnv("", "B", TRUE, "R", "", TRUE)}

LinkRequests == {DigestRequest("R", "", "", "", <<>>, <<>>, <<>>, dry) : dry \in {"", "1"}}

InitLinks == InitRun(LinkEnvs, {Population(PopScenario, {"s1", "s2", "s3"})}, {TimeOfDay(9, 5)})

LinkStart == StartWith(LinkRequests)

\* verifyTokenWithSecrets on signPayload(payload, signer): the signature matches
\* under the secret it was signed with, then the expiry is tested.
LinkVerifies(link, secrets, now) ==
    /\ \E k \in 1..Len(secrets) : secrets[k] = link.signer
    /\ ~IsExpired(link.payload.exp, now)

\* The subscribers the run's mail went out to.
Mailed == {run.results[k].userId : k \in {j \in 1..Len(run.results) : run.results[j].status = "sent"}}

\* A recipient follows a link of a digest that was mailed: the handler verifies the
\* token, then calls consumeNonce with the nonce of its payload.
FollowLink ==
    /\ run.pc = "done"
    /\ Len(run.clicks) < MaxClicks
    /\ \E k \in 1..Len(run.links), storageFails \in BOOLEAN :
        LET link == run.links[k]
            nonce == getPayloadNonce(link.payload)
            status == IF LinkVerifies(link, getSecrets(envSecret, envSecretAlt), nowMs)
                          THEN consumeNonce(nonce, used_nonces, storageFails)
                      ELSE "none"
        IN  /\ link.payload.user_id \in Mailed
            /\ used_nonces' = LedgerAfter(nonce, used_nonces, status)
            /\ run' = [run EXCEPT !.clicks = Append(@, [link |-> k, status |-> status])]
    /\ UNCHANGED <<envVars, nowMs, user_prefs, surveys, reqs, nOk, codecVars, cad>>

NextLinks ==
    \/ LinkStart
    \/ DigestLoadPrefs
    \/ DigestLoadArticles
    \/ DigestListUsers
    \/ DigestMailer
    \/ FollowLink

SpecLinks == InitLinks /\ [][NextLinks]_vars

(***************************************************************************)
(* One invocation after another, with unsubscribe links followed in        *)
(* between and during the runs.  The log of what happened is kept for the  *)
(* properties only; the program keeps none.                                *)
(***************************************************************************)
\* Invocations in a row.
MaxRuns == 2

\* Unsubscribes committed meanwhile.
MaxCommits == 1

RepeatEnvs == {DigestEnv("A", "B", TRUE, "R", "", TRUE)}

RepeatPopulations == {Population(PopScenario, {"s1", "s2", "s3"})}

\* Ten minutes before 09:00.
RepeatTimes == {TimeOfDay(8, 50)}

\* Minutes from one invocation to the next.
RepeatGaps == {10, 40}

RepeatRequests ==
    {DigestRequest("R", "", "", "", <<>>, <<>>, <<>>, dry) : dry \in {"", "1"}}

InitRepeat ==
    /\ \E e \in RepeatEnvs, pop \in RepeatPopulations :
        /\ envSecret = e.secret
        /\ envSecretAlt = e.secretAlt
        /\ envDb = e.db
        /\ user_prefs = pop.prefs
        /\ run = IdleRun([runSecret |-> e.runSecret, cronSecret |-> e.cronSecret,
                          resendApiKey |-> e.resendApiKey], pop.users)
    /\ nowMs \in RepeatTimes
    /\ cad = [pc |-> "log", past |-> <<>>, commits |-> <<>>]
    /\ InitOthers

RepeatStart == StartWith(RepeatRequests)

\* The run went through its loop, not as a dry run, every mailer call answered.
WentThrough(r) ==
    /\ ~r.dryRun
    /\ r.response.status = 200
    /\ r.faults \cap {"prefs", "articles"} = {}
    /\ \A k \in 1..Len(r.answers) : r.answers[k] \in {"accepted", "rejected"}

\* What the log keeps of a run that has answered: its time and window, the loaded
\* rows, the emails it saw, whom it called the mailer for and whom it sent to, and
\* whether it went through.
LogEntry(r, now) ==
    [at |-> now, windowMinutes |-> r.windowMinutes, prefs |-> r.prefs,
     emails |-> r.emailLookup, mailer |-> SeqToSet(r.mailer),
     sent |-> {r.results[k].userId :
                k \in {j \in 1..Len(r.results) : r.results[j].status = "sent"}},
     through |-> WentThrough(r)]

\* A variant that leaves those the last run delivered to out of the next one.
FreshRunDeduplicating(r) ==
    IdleRun(r.env, r.users \ {r.results[k].userId :
                                k \in {j \in 1..Len(r.results) : r.results[j].status = "sent"}})

\* GET starts from its request and the tables; nothing of the run before it is
\* kept in the process.
FreshRun(r) == IdleRun(r.env, r.users)

\* The next invocation, some minutes after the last has answered.
NextInvocation ==
    /\ cad.pc = "log"
    /\ run.pc = "done"
    /\ Len(cad.past) + 1 < MaxRuns
    /\ \E gap \in RepeatGaps : nowMs' = nowMs + gap * MsPerMinute
    /\ cad' = [cad EXCEPT !.past = Append(@, LogEntry(run, nowMs))]
    /\ run' = FreshRun(run)
    /\ UNCHANGED <<envVars, dbVars, reqs, nOk, codecVars>>

\* The upsert of the unsubscribe page: { user_id, unsubscribed: true }.
UpsertUnsubscribed(rows, userId) ==
    [k \in 1..Len(rows) |->
        IF rows[k].user_id = userId THEN [rows[k] EXCEPT !.unsubscribed = TRUE] ELSE rows[k]]

\* A subscriber's unsubscribe is committed to user_prefs, at any moment.
UnsubscribeCommit ==
    /\ cad.pc = "log"
    /\ Len(cad.commits) < MaxCommits
    /\ \E k \in 1..Len(user_prefs) :
        /\ ~user_prefs[k].unsubscribed
        /\ user_prefs' = UpsertUnsubscribed(user_prefs, user_prefs[k].user_id)
        /\ cad' = [cad EXCEPT !.commits = Append(@, [userId |-> user_prefs[k].user_id,
                                                     runs |-> Len(cad.past), pc |-> run.pc,
                                                     i |-> run.i])]
    /\ UNCHANGED <<envVars, nowMs, used_nonces, surveys, reqs, nOk, codecVars, run>>

NextRepeat ==
    \/ RepeatStart
    \/ DigestLoadPrefs
    \/ DigestLoadArticles
    \/ DigestListUsers
    \/ DigestMailer
    \/ NextInvocation
    \/ UnsubscribeCommit

SpecRepeat == InitRepeat /\ [][NextRepeat]_vars

(***************************************************************************)
(* The scheduler invoked at a fixed cadence, no invocation left out: every *)
(* gap minutes a run loads the row of one subscriber and filters it.       *)
(***************************************************************************)
\* Days the invocations go on for.
MaxDays == 2

CadencePrefs ==
    {PrefRow("s1", FALSE, zone, t[1], t[2]) :
        zone \in {"UTC", "Asia/Kolkata"},
        t \in {<<0, 0>>, <<0, 5>>, <<12, 0>>, <<23, 59>>}}

\* window: "1", not there (15), "60", "90" (which the run takes for 60).
CadenceWindows == {<<49>>, <<>>, <<54, 48>>, <<57, 48>>}

CadenceGaps == {1, 7, 15, 45, 60}

\* What the run keeps of the row: the due subscribers of DigestAfterPrefs.
DueAt(pref, window, now) ==
    LET r == [IdleRun([runSecret |-> "R", cronSecret |-> "", resendApiKey |-> TRUE], {})
                EXCEPT !.pc = "prefs", !.windowMinutes = windowMinutes(window)]
    IN  DigestAfterPrefs(r, <<pref>>, FALSE, now).duePrefs # <<>>

\* waited: the minutes since the latest invocation that found the subscriber due,
\* or since the first invocation; found: whether one has.
InitCadence ==
    /\ envSecret = "A"
    /\ envSecretAlt = "B"
    /\ envDb = TRUE
    /\ run = NoRun
    /\ InitOthers
    /\ \E pref \in CadencePrefs, window \in CadenceWindows, gap \in CadenceGaps :
        /\ gap <= windowMinutes(window)
        /\ user_prefs = <<pref>>
        /\ cad = [pc |-> "on", window |-> window, gap |-> gap, invoked |-> FALSE,
                  due |-> FALSE, waited |-> 0, found |-> FALSE, elapsed |-> 0]
        /\ \E start \in 0..(gap - 1) : nowMs = start * MsPerMinute

\* The first invocation happens at the initial time, each next one gap minutes later.
CadenceInvoke ==
    /\ cad.pc = "on"
    /\ cad.elapsed + cad.gap <= MaxDays * MinutesPerDay
    /\ LET now == IF cad.invoked THEN nowMs + cad.gap * MsPerMinute ELSE nowMs
           due == DueAt(user_prefs[1], cad.window, now)
           passed == IF cad.invoked THEN cad.gap ELSE 0
       IN  /\ nowMs' = now
           /\ cad' = [cad EXCEPT !.invoked = TRUE, !.due = due,
                                 !.waited = IF due THEN 0 ELSE @ + passed,
                                 !.found = @ \/ due,
                                 !.elapsed = @ + passed]
    /\ UNCHANGED <<envVars, dbVars, reqs, nOk, codecVars, run>>

NextCadence == CadenceInvoke

SpecCadence == InitCadence /\ [][NextCadence]_vars

(***************************************************************************)
(* What a token is, apart from what the verifier says of it: the payloads  *)
(* and secrets it was minted from.                                         *)
(***************************************************************************)
PayloadSpace ==
    {Payload(u, e, n) : u \in {Absent} \cup SeqToSet(UserIds), e \in {NoExp} \cup (0..9),
                        n \in {Absent} \cup SeqToSet(NonceVals)}

AllMinted == {<<signPayload(m[1], m[2]), m[1], m[2]>> : m \in PayloadSpace \X {"A", "B", "X"}}

MintedAs == [t \in ReqTokens |-> {<<m[2], m[3]>> : m \in {x \in AllMinted : x[1] = t}}]

ConfiguredSecrets == {envSecret, envSecretAlt} \ {""}

\* The token was signed with a configured secret and has not expired at time now.
Genuine(token, now) ==
    \E m \in MintedAs[token] :
        /\ m[2] \in ConfiguredSecrets
        /\ (m[1].exp = NoExp \/ now <= m[1].exp * MsPerSec)

\* The payload the token was minted from (of a token that was minted).
PayloadOf(token) == (CHOOSE m \in MintedAs[token] : TRUE)[1]

IsSurvey(req) == req.h \in {"surveyGET", "surveyPOST"}
IsManageAction(req) == req.h \in {"updatePrefs", "manageUnsubscribe"}

\* The dedicated answer of a handler to a link that was already used.
UsedOutcome(req) ==
    IF req.h = "unsubscribe" \/ (req.h = "surveyGET" /\ req.param # "")
        THEN Response(307, "/link/used")
        ELSE Response(410, "Link already used")

\* C1: for every nonce, the consumeNonce calls that do not end in a storage error
\* return "ok" exactly once, the first time, and "used" every other time: the count
\* of "ok" results never exceeds one, it is one exactly when the nonce is in the
\* ledger, every call that returned "used" follows the one that returned "ok", and a
\* request that acts on a token with a nonce is the one whose call returned "ok".
C1_SingleUse ==
    /\ \A n \in SeqToSet(NonceVals) : nOk[n] <= 1 /\ (nOk[n] = 1 <=> n \in used_nonces)
    /\ \A r \in Slots :
        LET req == reqs[r]
        IN  /\ req.nres \in {"ok", "used"} => nOk[req.payload.n] = 1
            /\ (req.payload.n # Absent /\ (req.pc = "write" \/ req.wrote)) => req.nres = "ok"
    /\ \A r1, r2 \in Slots :
        (r1 # r2 /\ reqs[r1].nres = "ok" /\ reqs[r2].nres = "ok")
            => reqs[r1].payload.n # reqs[r2].payload.n

\* Two requests bear the same token: the call of one returned "ok", of the other "used".
C1_Witness ==
    \E r1, r2 \in Slots :
        /\ reqs[r1].token = reqs[r2].token
        /\ reqs[r1].nres = "ok"
        /\ reqs[r2].nres = "used"

\* C2: a handler is at its write, or has written, only if the token of the request
\* was signed with a configured secret and had not expired when the request read the
\* clock, and, when the payload carries a nonce, consumeNonce returned "ok" in that
\* request; a malformed, forged, expired or used token never gets to the write.
C2_WriteOnlyAfterChecks ==
    \A r \in Slots :
        LET req == reqs[r]
        IN  (req.pc = "write" \/ req.wrote) =>
                /\ Genuine(req.token, req.at)
                /\ req.payload = PayloadOf(req.token)
                /\ IF req.payload.n # Absent THEN req.nres = "ok" ELSE req.nres \in {"skip", "none"}

\* A request with a nonce has written.
C2_Witness ==
    \E r \in Slots : reqs[r].wrote /\ reqs[r].payload.n # Absent /\ reqs[r].nres = "ok"

\* C3: when consumeNonce returns "error", the unsubscribe page and the survey route
\* stop with an error: the request writes nothing and its response is the handler's
\* failure message, not the redirect to /link/used and not the status 410.
C3_StorageErrorAborts ==
    \A r \in Slots :
        LET req == reqs[r]
        IN  (req.nres = "error" /\ (req.h = "unsubscribe" \/ IsSurvey(req))) =>
                /\ req.pc = "done"
                /\ ~req.wrote
                /\ req.out = IF req.h = "unsubscribe"
                                THEN Response(200, "Failed to validate link.")
                                ELSE Response(500, "Failed to validate link")
                /\ req.out.body # "/link/used"
                /\ req.out.status # 410

\* A survey request whose insert into used_nonces failed.
C3_Witness ==
    \E r \in Slots : IsSurvey(reqs[r]) /\ reqs[r].nres = "error" /\ reqs[r].pc = "done"

(***************************************************************************)
(* The codec runs.                                                         *)
(***************************************************************************)
Verified == vRes.error # "<not run>"

\* The token handed to the verifier is the one signPayload returned.
Intact == vTok = signPayload(vPayload, vSigner)

SignerConfigured == vSigner \in ConfiguredSecrets

Unexpired == vPayload.exp = NoExp \/ nowMs <= vPayload.exp * MsPerSec

\* C4: a token of an unexpired payload signed with an alternate secret that differs
\* from the (non-empty) primary verifies, with the payload that was signed, when
\* the verifier is given the primary and the alternate, and fails as an invalid
\* signature when it is given the primary only.
C4_Rotation ==
    (Verified /\ Intact /\ Unexpired /\ envSecret # "" /\ vSigner # ""
     /\ vSigner # envSecret) =>
        /\ envSecretAlt = vSigner => (vRes.ok /\ vRes.payload = vPayload)
        /\ envSecretAlt = "" =>
            (~vRes.ok /\ vRes.error = "Invalid token or signature")

\* A token signed with the alternate has verified under [primary, alternate].
C4_Witness ==
    /\ Verified /\ Intact
    /\ vSigner = "B" /\ envSecret = "A" /\ envSecretAlt = "B"
    /\ vRes.ok /\ vRes.payload = vPayload

\* C5: the verifier answers "Token expired" only for a token whose signature is
\* that of a configured secret; for a token whose signature is of none of them it
\* answers with a format or signature error, whatever the exp of its payload.
C5_ExpiredOnlyWhenSigned ==
    Verified =>
        /\ vRes.error = "Token expired" => (Intact /\ SignerConfigured)
        /\ ~(Intact /\ SignerConfigured) =>
            (~vRes.ok /\ vRes.error \in {"Bad token format", "Invalid token or signature"})

\* A token signed with no configured secret, its exp in the past, has been refused
\* as an invalid signature.
C5_Witness ==
    /\ Verified /\ Intact /\ ~SignerConfigured
    /\ vPayload.exp # NoExp /\ nowMs > vPayload.exp * MsPerSec
    /\ vRes.error = "Invalid token or signature"

C7_NoSecretConfigError ==
    (envSecret = "" /\ envSecretAlt = "") =>
        /\ used_nonces = {}
        /\ surveys = 0
        /\ \A u \in SeqToSet(UserIds) : user_prefs[u] = "NoRow"
        /\ \A r \in Slots :
            reqs[r].pc = "done" =>
                /\ ~reqs[r].wrote
                /\ reqs[r].nres = "none"
                /\ reqs[r].out.body # "Invalid token or signature"

C10_NoUserIdRejected ==
    \A r \in Slots :
        LET req == reqs[r]
        IN  ( /\ req.pc # "idle"
              /\ Genuine(req.token, req.at)
              /\ PayloadOf(req.token).user_id = Absent ) =>
                /\ req.pc = "done"
                /\ req.nres = "none"
                /\ ~req.wrote
                /\ PayloadOf(req.token).n \notin used_nonces

\* C19 as the specification has it: for every payload p and every secret s, the
\* token signPayload(p, s) verifies against the list [s] with the payload p.
C19_RoundTripAll ==
    (Verified /\ Intact /\ envSecret = vSigner /\ envSecretAlt = "") =>
        (vRes.ok /\ vRes.payload = vPayload)

\* C19 as the code has it: for every payload p whose exp is absent or not yet past
\* and every non-empty secret s, signPayload(p, s) verifies against [s] with the
\* payload p; with exp in the past the answer is "Token expired", and a token
\* signed with the empty secret never verifies, the empty secret being skipped.
C19_RoundTrip ==
    (Verified /\ Intact /\ envSecret = vSigner /\ envSecretAlt = "") =>
        /\ (vSigner # "" /\ Unexpired) => (vRes.ok /\ vRes.payload = vPayload)
        /\ (vSigner # "" /\ ~Unexpired) => (~vRes.ok /\ vRes.error = "Token expired")
        /\ vSigner = "" => (~vRes.ok /\ vRes.error = "Invalid token or signature")

\* A token with all three fields has come back from the verifier as it was signed.
C19_Witness ==
    /\ Verified /\ Intact
    /\ envSecret = vSigner /\ envSecretAlt = "" /\ vSigner = "A"
    /\ vPayload = Payload("u1", 2, "n1")
    /\ vRes.ok /\ vRes.payload = vPayload

\* The token differs from the one signPayload returned in one bit of one character.
OneBitAltered ==
    LET signed == signPayload(vPayload, vSigner)
    IN  /\ Len(vTok) = Len(signed)
        /\ \E i \in 1..Len(signed), k \in 0..(CharBits - 1) :
            vTok = [signed EXCEPT ![i] = FlipBit(@, k)]

\* C20: a token that differs from a token of signPayload in a single bit, in the
\* payload half or in the signature half, never verifies: the verifier answers it
\* with a format error or a signature error.
C20_SingleBitTamper ==
    (Verified /\ OneBitAltered) =>
        /\ ~vRes.ok
        /\ vRes.error \in {"Bad token format", "Invalid token or signature"}

(***************************************************************************)
(* The scheduler.                                                          *)
(***************************************************************************)
Running == run.pc \notin {"off", "idle"}

SeqIds(rows) == {rows[k].user_id : k \in 1..Len(rows)}

\* p: the preferred minute of the day; 09:00 when the row has none.
PreferredMinute(pref) ==
    (IF pref.send_hour = NoTime THEN 9 ELSE pref.send_hour) * 60
    + (IF pref.send_minute = NoTime THEN 0 ELSE pref.send_minute)

\* c: the minute of the day on the subscriber's wall clock at the time of the run;
\* a row without a zone, or with one that is unknown, is read in UTC.
CurrentMinute(pref) ==
    LET offset == CASE pref.send_timezone = "Asia/Kolkata" -> 330
                    [] pref.send_timezone = "America/Phoenix" -> 1440 - 420
                    [] OTHER -> 0
    IN  ((nowMs \div 60000) + offset) % 1440

CircularDistance(p, c) == IF Abs(p - c) <= 1440 - Abs(p - c) THEN Abs(p - c) ELSE 1440 - Abs(p - c)

WithinWindow(pref) == CircularDistance(PreferredMinute(pref), CurrentMinute(pref)) <= run.windowMinutes

\* C11: a run that has loaded the rows takes an active subscriber for due exactly
\* when min(|p - c|, 1440 - |p - c|) <= windowMinutes, p the preferred and c the
\* current minute of the day in the subscriber's zone; so 00:05 is due at 23:58
\* with tolerance 15, and 12:00 is not due at 12:20.
C11_DueIffWithinWindow ==
    (Running /\ run.loaded) =>
        /\ \A k \in 1..Len(run.prefs) :
            ~run.prefs[k].unsubscribed =>
                (run.prefs[k].user_id \in SeqIds(run.duePrefs) <=> WithinWindow(run.prefs[k]))
        /\ \A k \in 1..Len(run.duePrefs) : \E j \in 1..Len(run.prefs) : run.prefs[j] = run.duePrefs[k]
        /\ (nowMs = TimeOfDay(12, 20) /\ run.windowMinutes = 15) =>
            \A k \in 1..Len(run.duePrefs) : PreferredMinute(run.duePrefs[k]) # 12 * 60

\* At 23:58 with tolerance 15 the subscriber of 00:05 is among the due ones.
C11_Witness ==
    /\ Running /\ run.loaded
    /\ nowMs = TimeOfDay(23, 58)
    /\ run.windowMinutes = 15
    /\ \E k \in 1..Len(run.duePrefs) : PreferredMinute(run.duePrefs[k]) = 5

\* The subscribers a response names as those the run would have sent to.
WouldSend(response) ==
    {response.skipped[k].userId :
        k \in {j \in 1..Len(response.skipped) : response.skipped[j].status = "dry"}}

\* The subscribers of the loaded rows that are active and within the window.
DueIds == {run.prefs[k].user_id :
            k \in {j \in 1..Len(run.prefs) :
                    ~run.prefs[j].unsubscribed /\ WithinWindow(run.prefs[j])}}

\* C12: a run with the dry-run flag calls the mailer for nobody, and its response
\* names exactly the due subscribers as those it would have sent to.
C12_DryRunReports ==
    (Running /\ run.dryRun /\ run.pc = "done" /\ run.response.ok) =>
        /\ run.mailer = <<>>
        /\ WouldSend(run.response) = DueIds

\* The subscriber has an email in the lookup of the run.
HasEmail(userId) == userId \in run.users /\ "users" \notin run.faults

\* The run has gone through its loop with every mailer call answered by a response.
LoopDone ==
    /\ Running /\ run.pc = "done"
    /\ run.duePrefs # <<>>
    /\ run.faults \cap {"prefs", "articles"} = {}
    /\ \A k \in 1..Len(run.answers) : run.answers[k] \in {"accepted", "rejected"}

\* C13: in a run whose mailer calls are all answered, every due subscriber has one
\* result, in order: skipped with the reason "No email" and no mailer call when there
\* is no address, skipped with the mailer's message when the call was rejected, sent
\* or dry otherwise; the subscribers after a skipped one are attempted like the
\* others, and the response is ok = true with the skipped results in it.
C13_SkipAndContinue ==
    LoopDone =>
        /\ run.response.ok /\ run.response.status = 200
        /\ Len(run.results) = Len(run.duePrefs)
        /\ \A k \in 1..Len(run.duePrefs) :
            LET userId == run.duePrefs[k].user_id
                result == run.results[k]
            IN  /\ result.userId = userId
                /\ ~HasEmail(userId) =>
                    (result = Result(userId, "skipped", "No email")
                     /\ userId \notin SeqToSet(run.mailer))
                /\ (HasEmail(userId) /\ ~run.dryRun) =>
                    \E c \in 1..Len(run.mailer) :
                        /\ run.mailer[c] = userId
                        /\ run.answers[c] = "rejected" =>
                            (result.status = "skipped" /\ result.error # "")
                        /\ run.answers[c] = "accepted" => result.status = "sent"
        /\ run.response.skipped = SelectSeq(run.results, LAMBDA x : x.status = "skipped")
        /\ run.response.sent
            = Cardinality({k \in 1..Len(run.results) : run.results[k].status = "sent"})

\* A send was rejected, the next subscriber was sent to, and the run answered ok.
C13_Witness ==
    /\ LoopDone
    /\ run.answers = <<"rejected", "accepted">>
    /\ Len(run.response.skipped) = 1
    /\ run.response.sent = 1

\* C14: a mailer call that throws or never settles is handled like a rejection: the
\* subscriber is recorded as skipped, the run does not stay waiting, and it ends
\* with the aggregate response after a result for every due subscriber.
C14_TimeoutLikeRejection ==
    Running =>
        \A c \in 1..Len(run.answers) :
            run.answers[c] \in {"throws", "hangs"} =>
                /\ run.pc # "hung"
                /\ \E k \in 1..Len(run.results) :
                    run.results[k].userId = run.mailer[c] /\ run.results[k].status = "skipped"
                /\ run.pc = "done" =>
                    (run.response.ok /\ Len(run.results) = Len(run.duePrefs))

\* C15: a run in which the load of user_prefs or the load of the articles failed
\* has ended with a failure response, and in it no token was signed and the mailer
\* was not called.
C15_LoadFailureIsFatal ==
    (Running /\ run.faults \cap {"prefs", "articles"} # {}) =>
        /\ run.pc = "done"
        /\ ~run.response.ok
        /\ run.response.status = 500
        /\ run.minted = <<>>
        /\ run.mailer = <<>>
        /\ run.results = <<>>

\* The load of the articles failed in a run that had due subscribers.
C15_Witness ==
    /\ Running
    /\ "articles" \in run.faults
    /\ run.duePrefs # <<>>
    /\ run.pc = "done"

\* The subscribers a run has dealt with: due, signed for, mailed, with a result, or
\* in the response.
Touched ==
    SeqIds(run.duePrefs) \cup SeqToSet(run.minted) \cup SeqToSet(run.mailer)
    \cup {run.results[k].userId : k \in 1..Len(run.results)}
    \cup {run.response.skipped[k].userId : k \in 1..Len(run.response.skipped)}

\* C16: every subscriber a run signs tokens for, mails, skips or reports has a row
\* with unsubscribed = false among the rows the run loaded; a subscriber whose row
\* had unsubscribed = true is none of them.
C16_OnlyActiveSubscribers ==
    Running =>
        /\ \A u \in Touched :
            \E k \in 1..Len(run.prefs) :
                run.prefs[k].user_id = u /\ ~run.prefs[k].unsubscribed
        /\ \A k \in 1..Len(run.prefs) :
            run.prefs[k].unsubscribed => run.prefs[k].user_id \notin Touched

\* A run has mailed while an unsubscribed user with an email was within the window.
C16_Witness ==
    /\ Running /\ run.pc = "done"
    /\ run.mailer # <<>>
    /\ \E k \in 1..Len(run.prefs) :
        /\ run.prefs[k].unsubscribed
        /\ WithinWindow(run.prefs[k])
        /\ HasEmail(run.prefs[k].user_id)

\* The request bears the run secret, as parameter or as bearer token.
BearsRunSecret ==
    /\ run.env.runSecret # ""
    /\ \/ run.req.secret = run.env.runSecret
       \/ /\ run.req.authorization.scheme = "Bearer "
          /\ run.req.authorization.credentials = run.env.runSecret

\* The secret of the cron signature: VERCEL_CRON_SECRET, or else the run secret.
CronSecret == IF run.env.cronSecret # "" THEN run.env.cronSecret ELSE run.env.runSecret

\* The request bears the cron header and a signature that is the HMAC of its body
\* under the cron secret, in one of the texts of a digest.
BearsCronSignature ==
    /\ run.req.cronHeader # ""
    /\ CronSecret # ""
    /\ run.req.signature \in SignatureTexts(createHmacDigest(CronSecret, run.req.body))

\* C17: a request gets past the authorization exactly when it bears the non-empty
\* run secret, as parameter or bearer token, or the cron header with the HMAC of its
\* body under the cron secret; every other request, and every request when no secret
\* is configured, is answered 401 and loads no subscriber, signs no token and calls
\* no mailer.
C17_Authorization ==
    Running =>
        /\ (BearsRunSecret \/ BearsCronSignature) =>
            ~(run.pc = "done" /\ run.response.status = 401)
        /\ ~(BearsRunSecret \/ BearsCronSignature) =>
            /\ run.pc = "done"
            /\ run.response = DigestResponse(401, FALSE, "Unauthorized", "")
            /\ ~run.loaded
            /\ run.minted = <<>>
            /\ run.mailer = <<>>
        /\ (run.env.runSecret = "" /\ run.env.cronSecret = "") => run.response.status = 401

\* A request without the run secret has got through on its cron signature.
C17_Witness ==
    /\ Running
    /\ ~BearsRunSecret
    /\ BearsCronSignature
    /\ run.loaded

\* C18: with invocations every gap minutes, gap at most the windowMinutes of the
\* runs, and none left out, no 24 hours pass without an invocation that finds an
\* active subscriber due: an invocation that does not find the subscriber due comes
\* less than 1440 minutes after the latest one that did, or after the first one.
C18_NoWindowMissed ==
    (cad.pc = "on" /\ cad.invoked) =>
        /\ cad.gap <= windowMinutes(cad.window)
        /\ ~cad.due => cad.waited < MinutesPerDay

\* Invocations every 15 minutes with the window 15 have found the subscriber due
\* again on the second day.
C18_Witness ==
    /\ cad.pc = "on" /\ cad.invoked
    /\ cad.gap = 15 /\ cad.window = <<>>
    /\ cad.due
    /\ cad.elapsed > MinutesPerDay

\* The token is two non-empty parts with one dot between them.
TwoNonEmptyParts(token) ==
    LET parts == SplitDot(token)
    IN  Len(parts) = 2 /\ parts[1] # <<>> /\ parts[2] # <<>>

\* C21: every token that is not exactly two non-empty parts separated by a dot, a
\* token with an empty payload part or an empty signature part included, is
\* answered with the format error 'Bad token format'.
C21_EmptyPartIsBadFormat ==
    (Verified /\ ~TwoNonEmptyParts(vTok)) =>
        /\ ~vRes.ok
        /\ vRes.error = "Bad token format"

\* The links the run built for a subscriber.
LinksOf(userId) == SelectSeq(run.links, LAMBDA l : l.payload.user_id = userId)

\* How many of the links lead to the path, for the article and answer.
CountLinks(links, path, article, answer) ==
    Cardinality({k \in 1..Len(links) :
        links[k].path = path /\ links[k].article = article /\ links[k].answer = answer})

\* C22: the run builds for each subscriber it mints for one manage link, one
\* unsubscribe link, one resubscribe link and a yes and a no link per article,
\* 3 + 2 x articles tokens, every token with a nonce of its own; so a link of a
\* mailed digest is refused as already used only when that very link was consumed
\* before, whatever other links of the digest were followed.
C22_SeparateNonces ==
    Running =>
        /\ \A u \in SeqToSet(run.minted) :
            LET mine == LinksOf(u)
            IN  /\ Len(mine) = 3 + 2 * Len(run.articles)
                /\ CountLinks(mine, "/manage", "", "") = 1
                /\ CountLinks(mine, "/unsubscribe", "", "") = 1
                /\ CountLinks(mine, "/unsubscribe?action=subscribe", "", "") = 1
                /\ \A a \in SeqToSet(run.articles), answer \in {"yes", "no"} :
                    CountLinks(mine, "/api/survey", a, answer) = 1
        /\ \A u \in Mailed : u \in SeqToSet(run.minted)
        /\ \A i, j \in 1..Len(run.links) :
            /\ run.links[i].payload.n # Absent
            /\ i # j => run.links[i].payload.n # run.links[j].payload.n
        /\ \A q \in 1..Len(run.clicks) :
            run.clicks[q].status = "used" =>
                \E before \in 1..(q - 1) :
                    /\ run.clicks[before].link = run.clicks[q].link
                    /\ run.clicks[before].status = "ok"

\* Two different links of one digest with two articles were followed, the second
\* after the first was consumed, and both were let through.
C22_Witness ==
    /\ Running
    /\ Len(run.articles) = 2
    /\ Len(run.clicks) = 2
    /\ run.clicks[1].link # run.clicks[2].link
    /\ run.links[run.clicks[1].link].payload.user_id
           = run.links[run.clicks[2].link].payload.user_id
    /\ run.clicks[1].status = "ok"
    /\ run.clicks[2].status = "ok"

\* The subscriber of the row is within windowMinutes of the preferred time at a
\* given moment.
WithinWindowAt(pref, now, window) ==
    LET offset == CASE pref.send_timezone = "Asia/Kolkata" -> 330
                    [] pref.send_timezone = "America/Phoenix" -> 1440 - 420
                    [] OTHER -> 0
        c == ((now \div 60000) + offset) % 1440
    IN  CircularDistance(PreferredMinute(pref), c) <= window

\* The active subscribers of the rows that are within the window and have an email.
Matched(prefs, emails, now, window) ==
    {prefs[k].user_id :
        k \in {j \in 1..Len(prefs) :
                /\ ~prefs[j].unsubscribed
                /\ WithinWindowAt(prefs[j], now, window)
                /\ prefs[j].user_id \in emails}}

\* C23: nothing of an earlier delivery is kept: a subscriber who is within the
\* window at two invocations, active at both and with an email (auth.users is the
\* same at both, and both list it), is handed to the mailer by the earlier and by
\* the later one.
C23_MatchedTwice ==
    (cad.pc = "log" /\ run.pc = "done" /\ "users" \notin run.faults
        /\ WentThrough(run)) =>
        \A e \in SeqToSet(cad.past) :
            e.through =>
                \A u \in Matched(e.prefs, e.emails, e.at, e.windowMinutes)
                            \cap Matched(run.prefs, e.emails, nowMs, run.windowMinutes) :
                    /\ u \in e.mailer
                    /\ u \in SeqToSet(run.mailer)

\* The subscriber of 09:00 was mailed at 08:50 and again at 09:00.
C23_Witness ==
    /\ cad.pc = "log" /\ run.pc = "done"
    /\ Len(cad.past) = 1
    /\ cad.past[1].at = TimeOfDay(8, 50)
    /\ nowMs = TimeOfDay(9, 0)
    /\ "s1" \in cad.past[1].sent
    /\ run.mailer # <<>> /\ run.mailer[1] = "s1"
    /\ run.results # <<>> /\ run.results[1] = Result("s1", "sent", "")

\* The unsubscribe was committed during the current run, after the run had loaded
\* the rows and before it came to the subscriber in its loop.
CommittedMidRun(c) ==
    /\ c.runs = Len(cad.past)
    /\ \/ c.pc \in {"articles", "users"}
       \/ /\ c.pc = "fetch"
          /\ \E k \in (c.i + 1)..Len(run.duePrefs) : run.duePrefs[k].user_id = c.userId

\* The unsubscribe was committed before the current run started.
CommittedBefore(c) == c.runs < Len(cad.past) \/ (c.runs = Len(cad.past) /\ c.pc = "idle")

\* C30: a run takes the unsubscribed flag from the rows it loaded and never reads
\* it again: a subscriber who was due in the loaded rows and whose unsubscribe is
\* committed after the load and before the loop comes to them is handed to the
\* mailer by that run all the same; a run that starts after the commit neither
\* signs tokens for them nor calls the mailer for them.
C30_SnapshotOfPrefs ==
    (cad.pc = "log" /\ Running) =>
        \A c \in SeqToSet(cad.commits) :
            /\ (/\ CommittedMidRun(c)
                /\ run.pc = "done"
                /\ WentThrough(run)
                /\ c.userId \in Matched(run.prefs, run.emailLookup, nowMs, run.windowMinutes))
                    => c.userId \in SeqToSet(run.mailer)
            /\ CommittedBefore(c) =>
                /\ c.userId \notin SeqToSet(run.mailer)
                /\ c.userId \notin SeqToSet(run.minted)
                /\ c.userId \notin SeqIds(run.duePrefs)

\* The subscriber of 09:00 unsubscribed while the run of 08:50 was listing the
\* users; that run mailed them, and the run of 09:00 did not.
C30_Witness ==
    /\ cad.pc = "log" /\ run.pc = "done" /\ run.loaded
    /\ Len(cad.past) = 1
    /\ cad.commits = <<[userId |-> "s1", runs |-> 0, pc |-> "users", i |-> 1]>>
    /\ cad.past[1].at = TimeOfDay(8, 50)
    /\ "s1" \in cad.past[1].mailer
    /\ nowMs = TimeOfDay(9, 0)
    /\ "s1" \notin SeqToSet(run.mailer)

\* What the manage action answers a token that does not verify, and what it answers
\* when the ledger could not be written.
ManageInvalidOutcome(req) ==
    ManageActionBegin(req.h, req.param, TokForged, envSecret, envSecretAlt, envDb, req.at).out

ManageStorageErrorOutcome(req) == ManageActionAfterNonce(req, "error").out

\* C24: the manage save action and the manage unsubscribe action answer a token
\* whose nonce is already in the ledger with an outcome of its own, one that is
\* neither the outcome of an invalid or expired token nor that of a storage error.
C24_ManageAlreadyUsedDedicated ==
    \A r \in Slots :
        LET req == reqs[r]
        IN  (req.pc = "done" /\ IsManageAction(req) /\ req.nres = "used") =>
                /\ req.out # ManageInvalidOutcome(req)
                /\ req.out # ManageStorageErrorOutcome(req)

\* C25: of two requests to the unsubscribe page that selects and then inserts the
\* nonce itself, both bearing the same token with a nonce, at most one applies the
\* subscription change, and when both have answered and one has applied it the
\* other was sent to /link/used.
C25_LegacyNoDoubleApply ==
    \A r1, r2 \in Slots :
        (/\ r1 # r2
         /\ reqs[r1].h = "unsubscribe" /\ reqs[r2].h = "unsubscribe"
         /\ reqs[r1].token = reqs[r2].token
         /\ reqs[r1].payload.n # Absent /\ reqs[r2].payload.n # Absent) =>
            /\ ~(reqs[r1].wrote /\ reqs[r2].wrote)
            /\ (reqs[r1].wrote /\ reqs[r2].pc = "done" /\ reqs[r2].nres \in {"used", "ok"}) =>
                reqs[r2].out = Response(307, "/link/used")

\* C26: consuming the nonce and writing are two steps and nothing is rolled back:
\* no step takes a nonce out of the ledger; when the upsert of the unsubscribe page
\* or the insert of the survey route fails after consumeNonce returned "ok", the
\* nonce stays in the ledger and no table has changed; and a later request whose
\* token bears a nonce of the ledger gets the handler's already-used answer and
\* writes nothing.
C26_NoRollback ==
    [][/\ used_nonces \subseteq used_nonces'
       /\ \A r \in Slots :
            LET before == reqs[r]
                after == reqs'[r]
            IN  /\ ( /\ before.pc = "write" /\ after.pc = "done"
                     /\ before.h = "unsubscribe" \/ IsSurvey(before)
                     /\ before.nres = "ok"
                     /\ ~after.wrote )
                   => /\ before.payload.n \in used_nonces'
                      /\ user_prefs' = user_prefs
                      /\ surveys' = surveys
                      /\ after.out.body \in {"upsert error", "insert error"}
                /\ ( /\ before.pc = "consume" /\ after.pc # "consume"
                     /\ before.h = "unsubscribe" \/ IsSurvey(before)
                     /\ before.payload.n \in used_nonces
                     /\ after.nres # "error" )
                   => /\ after.out = UsedOutcome(before)
                      /\ ~after.wrote
    ]_vars

\* The unsubscribe link was answered as already used, while no row of user_prefs
\* and no survey answer was ever written: the request that consumed its nonce
\* failed at its write.
C26_Witness ==
    \E r \in Slots :
        /\ reqs[r].h = "unsubscribe"
        /\ reqs[r].pc = "done"
        /\ reqs[r].nres = "used"
        /\ reqs[r].out = Response(307, "/link/used")
        /\ \A q \in Slots \ {r} : reqs[q].pc = "idle"
        /\ \A u \in SeqToSet(UserIds) : user_prefs[u] = "NoRow"
        /\ surveys = 0

\* C27: a row is added to used_nonces only by the consumeNonce call of a request
\* whose token was signed with a configured secret and had not expired, and the row
\* is the nonce of that token; a request whose token is malformed, forged or
\* expired ends where it began, without a call to the database, so it adds nothing.
C27_OnlyVerifiedConsume ==
    [][/\ \A r \in Slots :
            LET before == reqs[r]
                after == reqs'[r]
            IN  (before.pc = "idle" /\ after.pc # "idle" /\ ~Genuine(after.token, after.at)) =>
                    /\ after.pc = "done"
                    /\ after.nres = "none"
                    /\ UNCHANGED dbVars
       /\ used_nonces' # used_nonces =>
            \E r \in Slots :
                /\ reqs[r].pc = "consume"
                /\ Genuine(reqs[r].token, reqs[r].at)
                /\ reqs[r].payload = PayloadOf(reqs[r].token)
                /\ used_nonces' = used_nonces \cup {reqs[r].payload.n}
                /\ reqs'[r].nres = "ok"
    ]_vars

\* A request with the forged token, which names the nonce of the valid one, has
\* ended; the ledger is empty and the valid token is on its way to consumeNonce.
C27_Witness ==
    \E r, q \in Slots :
        /\ reqs[r].token = TokForged /\ reqs[r].pc = "done" /\ reqs[r].nres = "none"
        /\ reqs[q].token = TokGood /\ reqs[q].pc = "consume"
        /\ used_nonces = {}

\* C28: the manage save action and the manage unsubscribe action that have come to
\* their upsert always answer with the redirect to ok=1, "Preferences saved", with
\* resub=1 after a forced resubscribe; they do so as well when the upsert failed and
\* user_prefs is as it was.
C28_ManageIgnoresUpsertResult ==
    [][\A r \in Slots :
        LET before == reqs[r]
            after == reqs'[r]
        IN  (before.pc = "write" /\ IsManageAction(before) /\ after.pc # "write") =>
                /\ after.pc = "done"
                /\ after.out = Response(307, IF before.param = "forceResubscribe"
                                                THEN "/manage?ok=1&resub=1" ELSE "/manage?ok=1")
                /\ ~after.wrote => user_prefs' = user_prefs
    ]_vars

\* The save action consumed the nonce, its upsert failed, no row was written, and
\* it answered with ok=1.
C28_Witness ==
    \E r \in Slots :
        /\ reqs[r].h = "updatePrefs"
        /\ reqs[r].pc = "done"
        /\ reqs[r].nres = "ok"
        /\ ~reqs[r].wrote
        /\ reqs[r].out = Response(307, "/manage?ok=1")
        /\ \A u \in SeqToSet(UserIds) : user_prefs[u] = "NoRow"

\* The run came to its loop over the due subscribers and is over, or waits forever.
FanOutOver ==
    /\ run.pc \in {"done", "hung"}
    /\ run.duePrefs # <<>>
    /\ run.faults \cap {"prefs", "articles"} = {}

\* How often the mailer was called for the subscriber.
MailerCalls(userId) == Cardinality({k \in 1..Len(run.mailer) : run.mailer[k] = userId})

\* C29: a run that came to its loop has, when it is over, one result for each due
\* subscriber, sent, skipped or dry, and has called the mailer for nobody twice;
\* without dry-run the sent count and the skipped entries of its response add up to
\* the number of due subscribers, and in a dry run the sent count is 0.
C29_OneResultEach ==
    FanOutOver =>
        /\ Len(run.results) = Len(run.duePrefs)
        /\ \A k \in 1..Len(run.results) :
            /\ run.results[k].userId = run.duePrefs[k].user_id
            /\ run.results[k].status \in {"sent", "skipped", "dry"}
        /\ \A u \in SeqIds(run.duePrefs) : MailerCalls(u) <= 1
        /\ ~run.dryRun =>
            run.response.sent + Len(run.response.skipped) = Len(run.duePrefs)
        /\ run.dryRun => run.response.sent = 0

====
